---- MODULE Spec2Model ----
(***************************************************************************)
(* MedNeutral: detection and rewriting of stigmatizing language in         *)
(* clinical notes.  The model covers the rule-based pipeline               *)
(* (stigma_classifier.py), the similarity pipeline                         *)
(* (bert_enhanced_classifier.py), the arbitration layer                    *)
(* (hybrid_processor.py) and the batch entry points (web/app.py,           *)
(* scripts/mimic_analysis.py).                                             *)
(*                                                                         *)
(* A text is a sequence of one-character strings; offsets are the 0-based  *)
(* offsets of the Python code.  Scores are integers in hundredths          *)
(* (0.6 is 60).                                                            *)
(***************************************************************************)
EXTENDS Integers, Sequences, FiniteSets, TLC

Min(a, b) == IF a <= b THEN a ELSE b
Max(a, b) == IF a >= b THEN a ELSE b

(***************************************************************************)
(* Characters and strings                                                  *)
(***************************************************************************)

\* The characters of a Python string, as a sequence of one-character strings
Spell(s) == [i \in 1..Len(s) |-> SubSeq(s, i, i)]

\* The Python string of a sequence of characters
RECURSIVE Unspell(_)
Unspell(s) == IF s = << >> THEN "" ELSE Head(s) \o Unspell(Tail(s))

\* str.lower() on the characters the model uses
LowerChar ==
  "A" :> "a" @@ "B" :> "b" @@ "C" :> "c" @@ "D" :> "d" @@ "E" :> "e" @@
  "F" :> "f" @@ "G" :> "g" @@ "H" :> "h" @@ "I" :> "i" @@ "J" :> "j" @@
  "K" :> "k" @@ "L" :> "l" @@ "M" :> "m" @@ "N" :> "n" @@ "O" :> "o" @@
  "P" :> "p" @@ "Q" :> "q" @@ "R" :> "r" @@ "S" :> "s" @@ "T" :> "t" @@
  "U" :> "u" @@ "V" :> "v" @@ "W" :> "w" @@ "X" :> "x" @@ "Y" :> "y" @@
  "Z" :> "z"

Lower(s) ==
  [i \in 1..Len(s) |-> IF s[i] \in DOMAIN LowerChar THEN LowerChar[s[i]] ELSE s[i]]

\* \w of the regular expressions: letters, digits, underscore
WordChars ==
  DOMAIN LowerChar \cup {LowerChar[c] : c \in DOMAIN LowerChar}
    \cup {"0", "1", "2", "3", "4", "5", "6", "7", "8", "9", "_"}

IsWordChar(c) == c \in WordChars

\* \s of the regular expressions and of str.split() / str.strip()
IsSpace(c) == c = " "

\* s[a:b] of Python for 0 <= a, 0 <= b: the bounds are clamped to len(s)
Slice(s, a, b) ==
  LET hi == Min(b, Len(s))
  IN  IF a >= hi THEN << >> ELSE SubSeq(s, a + 1, hi)

\* s[p:].startswith(pat), p a 0-based offset
StartsWithAt(s, pat, p) ==
  /\ p + Len(pat) <= Len(s)
  /\ \A i \in 1..Len(pat) : s[p + i] = pat[i]

\* the characters of w.lower()
LowerSpell(w) == Lower(Spell(w))

\* len(text.split()): the number of maximal runs of non-whitespace
WordCount(s) ==
  Cardinality({i \in 1..Len(s) : ~IsSpace(s[i]) /\ (i = 1 \/ IsSpace(s[i - 1]))})

(***************************************************************************)
(* The tables of the source                                                *)
(***************************************************************************)

replacements ==
  "adamant" :> (
      "adamant" :> "firm" @@
      "adamantly" :> "firmly" @@
      "adament" :> "firm" @@
      "adamently" :> "firmly" @@
      "claim" :> "report" @@
      "claimed" :> "reported" @@
      "claiming" :> "reporting" @@
      "claims" :> "reports" @@
      "insist" :> "state" @@
      "insisted" :> "stated" @@
      "insistence" :> "statement" @@
      "insisting" :> "stating" @@
      "insists" :> "states") @@
  "compliance" :> (
      "adherance" :> "adherence" @@
      "adhere" :> "follow" @@
      "adhered" :> "followed" @@
      "adherence" :> "compliance" @@
      "adherent" :> "compliant" @@
      "adheres" :> "follows" @@
      "adhering" :> "following" @@
      "compliance" :> "adherence" @@
      "compliant" :> "adherent" @@
      "complied" :> "followed" @@
      "complies" :> "follows" @@
      "comply" :> "follow" @@
      "complying" :> "following" @@
      "declined" :> "did not accept" @@
      "declines" :> "does not accept" @@
      "declining" :> "not accepting" @@
      "nonadherance" :> "non-adherence" @@
      "nonadherence" :> "non-adherence" @@
      "nonadherent" :> "non-adherent" @@
      "noncompliance" :> "non-adherence" @@
      "noncompliant" :> "non-adherent" @@
      "refusal" :> "declined" @@
      "refuse" :> "decline" @@
      "refused" :> "declined" @@
      "refuses" :> "declines" @@
      "refusing" :> "declining") @@
  "other" :> (
      "aggression" :> "agitation" @@
      "aggressive" :> "agitated" @@
      "aggressively" :> "agitated" @@
      "agitated" :> "agitated" @@
      "agitation" :> "agitation" @@
      "anger" :> "frustration" @@
      "angered" :> "frustrated" @@
      "angers" :> "frustrates" @@
      "angrier" :> "more frustrated" @@
      "angrily" :> "frustrated" @@
      "angry" :> "frustrated" @@
      "argumentative" :> "disagreeing" @@
      "argumentatively" :> "disagreeing" @@
      "belligerence" :> "confrontation" @@
      "belligerent" :> "confrontational" @@
      "belligerently" :> "confrontationally" @@
      "combative" :> "confrontational" @@
      "combatively" :> "confrontationally" @@
      "confrontational" :> "confrontational" @@
      "defensive" :> "defensive" @@
      "disheveled" :> "disheveled" @@
      "drug seeking" :> "seeking medication" @@
      "drug-seeking" :> "seeking medication" @@
      "exaggerate" :> "overstate" @@
      "exaggerates" :> "overstates" @@
      "exaggerating" :> "overstating" @@
      "historian" :> "patient" @@
      "malinger" :> "feign" @@
      "malingered" :> "feigned" @@
      "malingerer" :> "person feigning" @@
      "malingering" :> "feigning" @@
      "malingers" :> "feigns" @@
      "narcotic seeking" :> "seeking pain medication" @@
      "narcotic-seeking" :> "seeking pain medication" @@
      "poorly groomed" :> "disheveled" @@
      "poorly-groomed" :> "disheveled" @@
      "secondary gain" :> "secondary benefit" @@
      "uncooperative" :> "uncooperative" @@
      "unkempt" :> "disheveled" @@
      "unmotivated" :> "unmotivated" @@
      "unwilling" :> "unwilling" @@
      "unwillingly" :> "unwillingly")

neutral_alternatives ==
  "adamant" :> <<"firm", "assertive", "determined", "resolute", "steadfast", "persistent", "consistent", "clear", "direct", "straightforward">> @@
  "compliance" :> <<"declined", "did not accept", "chose not to", "elected not to", "was unable to", "had difficulty with", "struggled with", "follow", "adhere", "participate", "engage">> @@
  "behavioral" :> <<"agitated", "distressed", "concerned", "frustrated", "worried", "anxious", "upset", "troubled", "bothered", "uncomfortable", "confrontational", "defensive", "resistant">> @@
  "appearance" :> <<"disheveled", "unkept", "tired", "weary", "exhausted", "fatigued", "drained", "worn", "strained", "stressed">> @@
  "substance_use" :> <<"seeking medication", "requesting pain relief", "asking for treatment", "seeking help", "requesting assistance", "asking for support">> @@
  "general" :> <<"patient", "individual", "person", "client", "resident", "participant", "subject", "case", "client", "recipient">>

proven_replacements ==
  "adamant" :> <<"firm", "determined", "resolute">> @@
  "refused" :> <<"declined", "did not accept", "chose not to">> @@
  "historian" :> <<"patient">> @@
  "noncompliant" :> <<"non-adherent", "had difficulty with">> @@
  "aggressive" :> <<"agitated", "distressed", "frustrated", "confrontational">> @@
  "agitated" :> <<"agitated">> @@
  "uncooperative" :> <<"uncooperative">> @@
  "combative" :> <<"confrontational", "defensive">> @@
  "drug seeking" :> <<"seeking medication", "requesting pain relief">> @@
  "poorly groomed" :> <<"disheveled", "unkept">> @@
  "malingering" :> <<"feigning", "exaggerating">> @@
  "belligerent" :> <<"confrontational", "defensive">> @@
  "exaggerating" :> <<"overstating", "emphasizing">> @@
  "claimed" :> <<"reported", "stated", "described">> @@
  "insisted" :> <<"stated", "reported", "described">> @@
  "adherence" :> <<"compliance">> @@
  "compliant" :> <<"adherent">> @@
  "compliance" :> <<"adherence">> @@
  "adherent" :> <<"compliant">> @@
  "comply" :> <<"follow", "adhere", "participate">>

poor_replacements ==
  "refused" :> <<"adhere", "comply", "accept">> @@
  "historian" :> <<"person", "individual", "client">> @@
  "noncompliant" :> <<"cooperate", "participate">> @@
  "comply" :> <<"declined", "refused", "did not accept">> @@
  "claimed" :> <<"persistent", "consistent">> @@
  "insisted" :> <<"persistent", "consistent">>

neutral_terms ==
  <<"agitated", "uncooperative", "patient", "individual", "person">>

grammar_errors ==
  <<"was adhere", "were adhere", "is adhere", "are adhere", "was comply", "were comply", "is comply", "are comply", "a patient", "an patient", "to declined", "with declined", "for declined", "declined to declined", "refused to declined">>

critical_terms ==
  "historian" :> "patient" @@
  "refused" :> "declined" @@
  "noncompliant" :> "non-adherent" @@
  "nonadherent" :> "non-adherent"

meaning_preserving ==
  "adamant" :> <<"firm", "determined", "resolute">> @@
  "aggressive" :> <<"agitated", "distressed", "frustrated">> @@
  "combative" :> <<"confrontational", "defensive">> @@
  "drug seeking" :> <<"seeking medication", "requesting pain relief">> @@
  "poorly groomed" :> <<"disheveled", "unkept">> @@
  "malingering" :> <<"feigning", "exaggerating">> @@
  "comply" :> <<"follow", "adhere", "participate">> @@
  "claimed" :> <<"reported", "stated", "described">> @@
  "insisted" :> <<"stated", "reported", "described">>

high_quality_replacements ==
  "adamant" :> "firm" @@
  "refused" :> "declined" @@
  "historian" :> "patient" @@
  "noncompliant" :> "non-adherent" @@
  "aggressive" :> "agitated" @@
  "combative" :> "confrontational" @@
  "drug seeking" :> "seeking medication" @@
  "poorly groomed" :> "disheveled" @@
  "malingering" :> "feigning"

(***************************************************************************)
(* Inputs: the keyword catalog loaded at construction and the texts        *)
(***************************************************************************)

\* Number of filler words appended to a long text ("Patient was x" has 3
\* words, so MaxPad - 1 fillers give 20 words and MaxPad give 21)
MaxPad == 18

\* A catalog is the JSON object of data/keywords.json in file order: a
\* sequence of [category, words].  DefaultCatalog has the three categories
\* of the replacement tables; each keyword is a key of its category's table.
DefaultCatalog ==
  << [category |-> "adamant",
      words |-> <<"adamant", "claimed", "insisted">>],
     [category |-> "compliance",
      words |-> <<"adherent", "comply", "declined", "noncompliant", "refused">>],
     [category |-> "other",
      words |-> <<"aggressive", "agitated", "combative", "drug seeking",
                  "historian", "unwilling">>] >>

\* A catalog that lists one keyword under two categories, and a category
\* the replacement tables do not know
OverlapCatalog ==
  << [category |-> "other", words |-> <<"refused", "combative">>],
     [category |-> "compliance", words |-> <<"refused", "comply">>],
     [category |-> "behavioral", words |-> <<"aggressive">>] >>

Catalogs == {DefaultCatalog, OverlapCatalog}

Subject == "Patient was "

TermsX ==
  { "cooperative", "adamant", "ADAMANT", "unclaimed", "refused", "combative",
    "agitated", "unwilling", "aggressive", "poor historian" }

TermsY == { "", " and REFUSED treatment", " to comply", ". Patient claimed pain" }

\* n further words: " ok ok ... ok"
Pad(n) == [i \in 1..(3 * n) |-> IF i % 3 = 1 THEN " " ELSE IF i % 3 = 2 THEN "o" ELSE "k"]

ShortTexts == {Spell(Subject \o x \o y \o ".") : x \in TermsX, y \in TermsY}

LongTexts ==
  {Spell(Subject \o x) \o Pad(n) \o <<".">> :
     x \in {"cooperative", "adamant", "unwilling"},
     n \in {MaxPad - 1, MaxPad}}

\* the notes of tests/test_system.py, and a short note of four pieces
\* between '.' characters
Scenario1 == Spell("Patient was adamant about symptoms.")
Scenario2 == Spell("Patient refused treatment and was combative.")
FourPieces == Spell("Patient was adamant. Refused food. No pain.")

\* a note whose second sentence has a term in the context of an override rule
TwoSentences == Spell("Patient refused. He refused to comply.")

\* a note with an already neutral catalog term in capitals
NeutralUpper == Spell("Patient was AGITATED.")

\* a note with its term more than 50 characters after the start
LateTerm == Spell("Patient was") \o Pad(MaxPad) \o Spell(" adamant.")

ScenarioTexts == {Scenario1, Scenario2, FourPieces, TwoSentences, NeutralUpper, LateTerm}

Texts == ShortTexts \cup LongTexts \cup ScenarioTexts

(***************************************************************************)
(* State                                                                   *)
(***************************************************************************)

\* Scores in hundredths
SimilarityThreshold == 60
ProvenBoost == 20
PoorPenalty == 30
QualityBonus == 10
NoAlternativeConfidence == 50
DefaultTopK == 5
AutoWordThreshold == 20
ComplexWordThreshold == 20
ComplexSentenceThreshold == 3

\* The embedding model is an external capability: what it answers is drawn
\* from these profiles.  The candidate at pool position fav gets similarity
\* hi, every other candidate lo.
MaxFav == 2

\* Longest batch of texts
MaxBatch == 2

EmbeddingLevels == {<<85, 30>>, <<85, 45>>, <<40, 40>>, <<30, 30>>}

Embeddings ==
  {[fav |-> f, hi |-> l[1], lo |-> l[2]] :
     f \in 1..MaxFav, l \in {x \in EmbeddingLevels : x[1] # x[2]}}
    \cup {[fav |-> 1, hi |-> l[1], lo |-> l[2]] :
            l \in {x \in EmbeddingLevels : x[1] = x[2]}}

NoEmbedding == [fav |-> 0, hi |-> 0, lo |-> 0]

VARIABLES
  keyword_dict,     \* StigmaClassifier.keyword_dict, the catalog
  use_bert,         \* HybridProcessor.use_bert
  bert_processor,   \* HybridProcessor.bert_processor: "None" or the processor
  bert_model,       \* the similarities the embedding model gives
  bert_inits,       \* how many times BERTEnhancedProcessor(...) was called
  request,          \* the call being made: operation and arguments
  response,         \* what the last call returned or raised
  patterns,         \* StigmaClassifier.patterns, the compiled patterns
  self_replacements,         \* StigmaRewriter.replacements
  self_neutral_alternatives, \* BERTEnhancedClassifier.neutral_alternatives
  stigma_embeddings,         \* BERTEnhancedClassifier.stigma_embeddings
  calls             \* what the call in progress asked of its collaborators

\* what construction loads and no call writes
tables == <<patterns, self_replacements, self_neutral_alternatives, stigma_embeddings>>

config == <<keyword_dict, use_bert, bert_processor, bert_model, bert_inits, tables>>
vars == <<config, request, response, calls>>

(***************************************************************************)
(* PatternMatcher: StigmaClassifier                                        *)
(***************************************************************************)

\* re.compile(r'\b(w1|w2|...)\b', re.IGNORECASE) for each category of the
\* catalog, in file order: a pattern is its category and its alternatives
compile_patterns(kd) ==
  [c \in 1..Len(kd) |-> [category |-> kd[c].category, words |-> kd[c].words]]

\* Boundary without the test: the pattern without its \b
Boundary_Unchecked(s, p) == TRUE

\* \b at offset p: exactly one of the characters around p is a word character
Boundary(s, p) ==
  LET before == p >= 1 /\ IsWordChar(s[p])
      after  == p < Len(s) /\ IsWordChar(s[p + 1])
  IN  before # after

\* the greatest and the least element of a set of offsets; -1 for the empty set
LastOffset(offsets) == IF offsets = {} THEN -1 ELSE CHOOSE i \in offsets : \A j \in offsets : j <= i
FirstOffset(offsets) == IF offsets = {} THEN -1 ELSE CHOOSE i \in offsets : \A j \in offsets : i <= j

\* the least index of a set of indexes; 0 for the empty set
FirstOf(hits) == IF hits = {} THEN 0 ELSE CHOOSE k \in hits : \A j \in hits : k <= j

\* The alternative of \b(w1|w2|...)\b that matches at offset p of the
\* lowercased text: the first wi that matches with a \b after it; 0 if none.
MatchAlt(words, low, p) ==
  IF ~Boundary(low, p) THEN 0
  ELSE FirstOf({k \in 1..Len(words) :
                  /\ StartsWithAt(low, LowerSpell(words[k]), p)
                  /\ Boundary(low, p + Len(words[k]))})

\* the offsets from p on at which the pattern matches
MatchOffsets(words, low, p) == {q \in p..(Len(low) - 1) : MatchAlt(words, low, q) # 0}

\* pattern.finditer(text): the non-overlapping matches from offset p on, the
\* scan resumes at the end of each match; q is the first offset with a match
RECURSIVE finditer(_, _, _)
RECURSIVE MatchesFrom(_, _, _)
MatchesFrom(words, low, q) ==
  IF q = -1 THEN << >>
  ELSE <<[start |-> q, end |-> q + Len(words[MatchAlt(words, low, q)])]>>
         \o finditer(words, low, q + Len(words[MatchAlt(words, low, q)]))

finditer(words, low, p) == MatchesFrom(words, low, FirstOffset(MatchOffsets(words, low, p)))

\* the StigmaMatch objects of the spans of one category's pattern
StigmaMatches(entry, text, spans) ==
  [i \in 1..Len(spans) |->
    [original_text |-> Slice(text, spans[i].start, spans[i].end),
     start_pos     |-> spans[i].start,
     end_pos       |-> spans[i].end,
     category      |-> entry.category,
     confidence    |-> 100,
     context       |-> Slice(text, Max(0, spans[i].start - 50),
                             Min(Len(text), spans[i].end + 50))]]

\* the matches of one category
CategoryMatches(entry, text) ==
  StigmaMatches(entry, text, finditer(entry.words, Lower(text), 0))

\* detect_stigma returning inside the loop: only one category is scanned
DetectFrom_FirstCategory(kd, text, c) ==
  IF c > Len(kd) THEN << >> ELSE CategoryMatches(kd[c], text)

RECURSIVE DetectFrom(_, _, _)
\* detect_stigma reporting a span once: a later category's match at an
\* offset already reported is dropped
DetectFrom_Deduplicated(kd, text, c) ==
  IF c > Len(kd) THEN << >>
  ELSE LET first   == CategoryMatches(kd[c], text)
           New(m)  == \A i \in 1..Len(first) : first[i].start_pos # m.start_pos
       IN  first \o SelectSeq(DetectFrom(kd, text, c + 1), New)

DetectFrom(kd, text, c) ==
  IF c > Len(kd) THEN << >>
  ELSE CategoryMatches(kd[c], text) \o DetectFrom(kd, text, c + 1)

detect_stigma(text) == DetectFrom(patterns, text, 1)

\* set(match.category for match in matches)
categories_of(matches) == {matches[i].category : i \in 1..Len(matches)}

get_stigma_categories(text) == categories_of(detect_stigma(text))

(***************************************************************************)
(* RuleBasedRewriter: StigmaRewriter                                       *)
(***************************************************************************)

\* self.replacements[category].get(word_lower, word)
table_get(table, word_lower, word) ==
  IF word_lower \in DOMAIN table THEN Spell(table[word_lower]) ELSE word

\* get_replacement looking the word up as it is written in the text
get_replacement_cased(word, category) ==
  IF category \in DOMAIN self_replacements
  THEN table_get(self_replacements[category], Unspell(word), word)
  ELSE word

get_replacement(word, category) ==
  IF category \in DOMAIN self_replacements
  THEN table_get(self_replacements[category], Unspell(Lower(word)), word)
  ELSE word

\* matches.sort(key=lambda x: x.start_pos, reverse=True): a stable sort,
\* matches of equal start keep their discovery order
InsertDesc(sorted, m) ==
  LET k == Cardinality({i \in 1..Len(sorted) : sorted[i].start_pos >= m.start_pos})
  IN  SubSeq(sorted, 1, k) \o <<m>> \o SubSeq(sorted, k + 1, Len(sorted))

RECURSIVE SortFrom(_, _, _)
SortFrom(matches, i, sorted) ==
  IF i > Len(matches) THEN sorted
  ELSE SortFrom(matches, i + 1, InsertDesc(sorted, matches[i]))

\* sort_reverse without reverse=True: ascending start offsets
RECURSIVE sort_ascending(_)
sort_ascending(matches) ==
  IF matches = << >> THEN << >>
  ELSE LET m    == matches[Len(matches)]
           rest == sort_ascending(SubSeq(matches, 1, Len(matches) - 1))
           k    == Cardinality({i \in 1..Len(rest) : rest[i].start_pos <= m.start_pos})
       IN  SubSeq(rest, 1, k) \o <<m>> \o SubSeq(rest, k + 1, Len(rest))

sort_reverse(matches) == SortFrom(matches, 1, << >>)

\* Splice keeping the matched text: the replacement is inserted before it
Splice_Insert(rewritten_text, start, end, replacement) ==
  Slice(rewritten_text, 0, start) \o replacement
    \o Slice(rewritten_text, start, Len(rewritten_text))

\* rewritten_text[:start] + replacement + rewritten_text[end:]
Splice(rewritten_text, start, end, replacement) ==
  Slice(rewritten_text, 0, start) \o replacement
    \o Slice(rewritten_text, end, Len(rewritten_text))

\* change_record with the offset of the match in the text rewritten so far
\* (the end of the match) instead of its start in the original text
change_record_shifted(match, replacement) ==
  [original    |-> match.original_text,
   replacement |-> replacement,
   category    |-> match.category,
   position    |-> match.end_pos,
   context     |-> match.context]

\* the Change recorded for a match that is rewritten
change_record(match, replacement) ==
  [original    |-> match.original_text,
   replacement |-> replacement,
   category    |-> match.category,
   position    |-> match.start_pos,
   context     |-> match.context]

\* the loop of rewrite_text over the sorted matches, from the i-th on;
\* RewriteStep is the body of the loop for a match and its replacement
RECURSIVE RewriteLoop(_, _, _, _)
RECURSIVE RewriteStep(_, _, _, _, _, _)
\* the body of the loop without the test: every match is spliced and recorded
RewriteStep_Always(matches, i, rewritten_text, changes, match, replacement) ==
  RewriteLoop(matches, i + 1,
    Splice(rewritten_text, match.start_pos, match.end_pos, replacement),
    Append(changes, change_record(match, replacement)))

RewriteStep(matches, i, rewritten_text, changes, match, replacement) ==
  IF Lower(replacement) # Lower(match.original_text)
  THEN RewriteLoop(matches, i + 1,
         Splice(rewritten_text, match.start_pos, match.end_pos, replacement),
         Append(changes, change_record(match, replacement)))
  ELSE RewriteLoop(matches, i + 1, rewritten_text, changes)

RewriteLoop(matches, i, rewritten_text, changes) ==
  IF i > Len(matches) THEN [text |-> rewritten_text, changes |-> changes]
  ELSE RewriteStep(matches, i, rewritten_text, changes, matches[i],
         get_replacement(matches[i].original_text, matches[i].category))

rewrite_text(text) ==
  RewriteLoop(sort_reverse(detect_stigma(text)), 1, text, << >>)

(***************************************************************************)
(* ClinicalNoteProcessor                                                   *)
(***************************************************************************)

\* note_result reporting only the matches that were rewritten
note_result_changed_only(text, stigma_matches, stigma_categories, rewritten) ==
  [original_text     |-> text,
   rewritten_text    |-> rewritten.text,
   has_stigma        |-> Len(rewritten.changes) > 0,
   stigma_matches    |->
     [i \in 1..Len(rewritten.changes) |->
       [text     |-> rewritten.changes[i].original,
        category |-> rewritten.changes[i].category,
        position |-> rewritten.changes[i].position,
        context  |-> rewritten.changes[i].context]],
   stigma_categories |-> {rewritten.changes[i].category : i \in 1..Len(rewritten.changes)},
   changes_made      |-> rewritten.changes,
   num_changes       |-> Len(rewritten.changes)]

\* the dictionary process_note returns
note_result(text, stigma_matches, stigma_categories, rewritten) ==
  [original_text     |-> text,
   rewritten_text    |-> rewritten.text,
   has_stigma        |-> Len(stigma_matches) > 0,
   stigma_matches    |->
     [i \in 1..Len(stigma_matches) |->
       [text     |-> stigma_matches[i].original_text,
        category |-> stigma_matches[i].category,
        position |-> stigma_matches[i].start_pos,
        context  |-> stigma_matches[i].context]],
   stigma_categories |-> stigma_categories,
   changes_made      |-> rewritten.changes,
   num_changes       |-> Len(rewritten.changes)]

process_note(text) ==
  note_result(text, detect_stigma(text), get_stigma_categories(text), rewrite_text(text))

(***************************************************************************)
(* AlternativeRanker: BERTEnhancedClassifier                               *)
(***************************************************************************)

InSeq(x, seq) == \E i \in 1..Len(seq) : seq[i] = x

\* s.lower() of a string literal of the tables
LowerName(w) == Unspell(LowerSpell(w))

LowerStr(w) == LowerName(w)

\* the category compute_stigma_embeddings stores for a word: it stores the
\* keywords category by category, a later category overwrites an earlier one
category_of(holders) ==
  IF holders = {} THEN "general"
  ELSE keyword_dict[CHOOSE c \in holders : \A d \in holders : d <= c].category

stored_category(word_lower) ==
  category_of({c \in 1..Len(keyword_dict) :
                 \E k \in 1..Len(keyword_dict[c].words) :
                   LowerStr(keyword_dict[c].words[k]) = word_lower})

\* compute_stigma_embeddings: one entry per lowercase catalog word, with the
\* category stored for it (the vector stored with it is never read)
compute_stigma_embeddings ==
  [w \in UNION {{LowerStr(keyword_dict[c].words[k]) : k \in 1..Len(keyword_dict[c].words)} :
                  c \in 1..Len(keyword_dict)}
     |-> [category |-> stored_category(w)]]

\* self.stigma_embeddings.get(word.lower(), {}).get('category', 'general')
stigma_category(word_lower) ==
  IF word_lower \in DOMAIN stigma_embeddings
  THEN stigma_embeddings[word_lower].category
  ELSE "general"

\* cosine_similarity([stigma_embedding], neutral_embeddings)[0]: the
\* similarities the embedding model gives, one per candidate.  The model is
\* deterministic per word, so equal candidates get equal similarities.
cosine_similarity(stigmatizing_word, neutral_words) ==
  LET first(i) == CHOOSE j \in 1..i : neutral_words[j] = neutral_words[i]
                       /\ \A h \in 1..(j - 1) : neutral_words[h] # neutral_words[i]
  IN  [i \in 1..Len(neutral_words) |->
        IF first(i) = bert_model.fav THEN bert_model.hi ELSE bert_model.lo]

\* a sort that puts a pair before the pairs of equal score
InsertByScore_BeforeEqual(sorted, pair) ==
  LET k == Cardinality({i \in 1..Len(sorted) : sorted[i].score > pair.score})
  IN  SubSeq(sorted, 1, k) \o <<pair>> \o SubSeq(sorted, k + 1, Len(sorted))

\* boosted_pairs.sort(key=lambda x: x[1], reverse=True): stable
InsertByScore(sorted, pair) ==
  LET k == Cardinality({i \in 1..Len(sorted) : sorted[i].score >= pair.score})
  IN  SubSeq(sorted, 1, k) \o <<pair>> \o SubSeq(sorted, k + 1, Len(sorted))

RECURSIVE SortPairsFrom(_, _, _)
SortPairsFrom(pairs, i, sorted) ==
  IF i > Len(pairs) THEN sorted
  ELSE SortPairsFrom(pairs, i + 1, InsertByScore(sorted, pairs[i]))

\* the boost of a proven replacement and the penalty of a poor one
boost_of(original_lower, word_lower) ==
  IF /\ original_lower \in DOMAIN proven_replacements
     /\ InSeq(word_lower, proven_replacements[original_lower])
  THEN ProvenBoost ELSE 0

penalty_of(original_lower, word_lower) ==
  IF /\ original_lower \in DOMAIN poor_replacements
     /\ InSeq(word_lower, poor_replacements[original_lower])
  THEN PoorPenalty ELSE 0

\* the adjusted score without the penalty of a poor replacement
boosted_similarity_boost_only(original_word, word, similarity) ==
  similarity + boost_of(Unspell(Lower(original_word)), LowerStr(word))

\* the adjusted score of one candidate
boosted_similarity(original_word, word, similarity) ==
  similarity + boost_of(Unspell(Lower(original_word)), LowerStr(word))
    - penalty_of(Unspell(Lower(original_word)), LowerStr(word))

filter_and_prioritize_alternatives(original_word, word_similarity_pairs, category) ==
  SortPairsFrom(
    [i \in 1..Len(word_similarity_pairs) |->
      [word  |-> word_similarity_pairs[i].word,
       score |-> boosted_similarity(original_word, word_similarity_pairs[i].word,
                                    word_similarity_pairs[i].score)]],
    1, << >>)

\* self.neutral_alternatives.get(category, self.neutral_alternatives['general'])
neutral_words_of(category) ==
  IF category \in DOMAIN self_neutral_alternatives
  THEN self_neutral_alternatives[category]
  ELSE self_neutral_alternatives["general"]

\* list(zip(neutral_words, similarities))
zip(neutral_words, similarities) ==
  [i \in 1..Len(neutral_words) |-> [word |-> neutral_words[i], score |-> similarities[i]]]

\* filtered_pairs[:top_k]
top(filtered, top_k) == SubSeq(filtered, 1, Min(top_k, Len(filtered)))

\* the ranking of the candidates neutral_words of the word's category
rank_alternatives(stigmatizing_word, category, neutral_words, top_k) ==
  top(filter_and_prioritize_alternatives(
        stigmatizing_word,
        zip(neutral_words, cosine_similarity(stigmatizing_word, neutral_words)),
        category),
      top_k)

rank_in_category(stigmatizing_word, category, top_k) ==
  rank_alternatives(stigmatizing_word, category, neutral_words_of(category), top_k)

find_similar_neutral_alternatives(stigmatizing_word, top_k) ==
  rank_in_category(stigmatizing_word,
                   stigma_category(Unspell(Lower(stigmatizing_word))), top_k)

\* the BERTStigmaMatch of a span, with the ranked alternatives of its word
BertStigmaMatch(entry, text, span, alternatives) ==
  [original_text     |-> Slice(text, span.start, span.end),
   start_pos         |-> span.start,
   end_pos           |-> span.end,
   category          |-> entry.category,
   confidence        |-> IF alternatives # << >> THEN alternatives[1].score
                         ELSE NoAlternativeConfidence,
   context           |-> Slice(text, Max(0, span.start - 50),
                               Min(Len(text), span.end + 50)),
   bert_alternatives |-> alternatives]

BertStigmaMatches(entry, text, spans) ==
  [i \in 1..Len(spans) |->
    BertStigmaMatch(entry, text, spans[i],
      find_similar_neutral_alternatives(Slice(text, spans[i].start, spans[i].end),
                                        DefaultTopK))]

\* the BERTStigmaMatch objects of one category
BertCategoryMatches(entry, text) ==
  BertStigmaMatches(entry, text, finditer(entry.words, Lower(text), 0))

RECURSIVE BertDetectFrom(_, _, _)
BertDetectFrom(kd, text, c) ==
  IF c > Len(kd) THEN << >>
  ELSE BertCategoryMatches(kd[c], text) \o BertDetectFrom(kd, text, c + 1)

detect_stigma_with_bert(text) == BertDetectFrom(patterns, text, 1)

\* pattern in s, for sequences of characters
Contains(s, pattern) == \E p \in 0..(Len(s) - Len(pattern)) : StartsWithAt(s, pattern, p)

\* s.replace(old, new): every non-overlapping occurrence, left to right; q
\* is the offset of the first occurrence from p on
RECURSIVE ReplaceFrom(_, _, _, _)
RECURSIVE ReplaceAt(_, _, _, _, _)
ReplaceAt(s, old, new, p, q) ==
  IF q = -1 THEN Slice(s, p, Len(s))
  ELSE Slice(s, p, q) \o new \o ReplaceFrom(s, old, new, q + Len(old))

ReplaceFrom(s, old, new, p) ==
  ReplaceAt(s, old, new, p,
            FirstOffset({q \in p..(Len(s) - Len(old)) : StartsWithAt(s, old, q)}))

Replace(s, old, new) == ReplaceFrom(s, old, new, 0)

\* any(pattern in test_context.lower() for pattern in the known errors)
has_grammar_error(test_context) ==
  \E k \in 1..Len(grammar_errors) : Contains(test_context, Spell(grammar_errors[k]))

is_grammatically_correct(original, replacement, full_text, position) ==
  ~has_grammar_error(
     Lower(Replace(Slice(full_text, Max(0, position - 20),
                         Min(Len(full_text), position + Len(original) + 20)),
                   original, Spell(replacement))))

\* preserves_meaning holding only the critical terms to their replacement
preserves_meaning_critical_only(original_lower, replacement_lower) ==
  IF original_lower \in DOMAIN critical_terms
  THEN replacement_lower = critical_terms[original_lower]
  ELSE TRUE

\* the sanctioned replacements of a term, for a lowercased term and replacement
preserves_meaning(original_lower, replacement_lower) ==
  IF original_lower \in DOMAIN critical_terms
  THEN replacement_lower = critical_terms[original_lower]
  ELSE IF original_lower \in DOMAIN meaning_preserving
       THEN InSeq(replacement_lower, meaning_preserving[original_lower])
       ELSE TRUE

preserves_clinical_meaning(original, replacement, category) ==
  preserves_meaning(Unspell(Lower(original)), LowerStr(replacement))

\* full_text.rfind('.', 0, position) and full_text.find('.', position)
RFindDot(full_text, position) ==
  LastOffset({i \in 0..(Min(position, Len(full_text)) - 1) : full_text[i + 1] = "."})

FindDot(full_text, position) ==
  FirstOffset({i \in position..(Len(full_text) - 1) : full_text[i + 1] = "."})

\* s without the characters before its first and after its last kept index
Kept(s, keep) ==
  IF keep = {} THEN << >>
  ELSE SubSeq(s, CHOOSE i \in keep : \A j \in keep : i <= j,
                 CHOOSE i \in keep : \A j \in keep : j <= i)

\* s.strip()
Strip(s) == Kept(s, {i \in 1..Len(s) : ~IsSpace(s[i])})

\* re.search(r'w1\s+w2...', s, re.IGNORECASE): the words joined by runs of
\* whitespace, at offset p of the lowercased s
RECURSIVE MatchWordsAt(_, _, _)
RECURSIVE MatchRestAt(_, _, _, _)
\* the rest of the words after a run of whitespace from q to r
MatchRestAt(low, words, q, r) == r > q /\ MatchWordsAt(low, words, r)

MatchWordsAt(low, words, p) ==
  /\ StartsWithAt(low, Spell(Head(words)), p)
  /\ \/ Len(words) = 1
     \/ MatchRestAt(low, Tail(words), p + Len(Head(words)),
          FirstOffset({r \in (p + Len(Head(words)))..Len(low) :
                         r = Len(low) \/ ~IsSpace(low[r + 1])}))

SearchLower(low, words) == \E p \in 0..(Len(low) - 1) : MatchWordsAt(low, words, p)

SearchWords(s, words) == SearchLower(Lower(s), words)

\* re.search(r'\bword\b', s, re.IGNORECASE)
SearchWholeWord(s, word) == finditer(<<word>>, Lower(s), 0) # << >>

\* (pattern, replacement_pattern, context_pattern)
problematic_contexts ==
  << [pattern |-> "historian", replacement |-> "patient",
      context |-> <<"poor", "historian">>],
     [pattern |-> "refused", replacement |-> "declined",
      context |-> <<"refused", "to", "comply">>],
     [pattern |-> "noncompliant", replacement |-> "non-adherent",
      context |-> <<"noncompliant", "with">>] >>

\* the whole text taken as the sentence of the match
sentence_between_whole_text(full_text, dot_before, dot_after) == Strip(full_text)

\* full_text[sentence_start:sentence_end].strip() for the '.' found before
\* and after the position
sentence_between(full_text, dot_before, dot_after) ==
  Strip(Slice(full_text, Max(0, dot_before + 1),
              IF dot_after = -1 THEN Len(full_text) ELSE dot_after))

\* the rules whose pattern matches the original and whose context pattern
\* matches the sentence
triggered_contexts(original, sentence) ==
  {k \in 1..Len(problematic_contexts) :
     /\ SearchWholeWord(original, problematic_contexts[k].pattern)
     /\ SearchWords(sentence, problematic_contexts[k].context)}

\* the first triggered rule decides: return replacement.lower() == its replacement
required_by(triggered, replacement_lower) ==
  IF triggered = {} THEN TRUE
  ELSE replacement_lower = problematic_contexts[FirstOf(triggered)].replacement

is_contextually_appropriate(original, replacement, full_text, position) ==
  required_by(
    triggered_contexts(original,
      sentence_between(full_text, RFindDot(full_text, position),
                       FindDot(full_text, position))),
    LowerStr(replacement))

\* passes_threshold without the threshold
passes_threshold_any(similarity_score) == TRUE

\* gate 1 of _is_appropriate_replacement: the similarity threshold
passes_threshold(similarity_score) == ~(similarity_score < SimilarityThreshold)

\* passes_term_rules without the list of the terms that are never replaced
passes_term_rules_compliance_only(original_lower, replacement_lower, category) ==
  category = "compliance" =>
    /\ ~(/\ original_lower \in {"refused", "declined"}
         /\ replacement_lower \in {"adhere", "comply"})
    /\ ~(original_lower = "comply" /\ replacement_lower = "declined")

\* gates 2 and 3: the terms that are never replaced and the pairs of the
\* category compliance that change the meaning
passes_term_rules(original_lower, replacement_lower, category) ==
  /\ ~InSeq(original_lower, neutral_terms)
  /\ category = "compliance" =>
       /\ ~(/\ original_lower \in {"refused", "declined"}
            /\ replacement_lower \in {"adhere", "comply"})
       /\ ~(original_lower = "comply" /\ replacement_lower = "declined")

is_appropriate_replacement(original, replacement, category, similarity_score, full_text, position) ==
  /\ passes_threshold(similarity_score)
  /\ passes_term_rules(Unspell(Lower(original)), LowerStr(replacement), category)
  /\ is_grammatically_correct(original, replacement, full_text, position)
  /\ preserves_clinical_meaning(original, replacement, category)
  /\ is_contextually_appropriate(original, replacement, full_text, position)

\* the bonus of a high-quality pair
quality_bonus(original_lower, replacement_lower) ==
  IF /\ original_lower \in DOMAIN high_quality_replacements
     /\ replacement_lower = high_quality_replacements[original_lower]
  THEN QualityBonus ELSE 0

calculate_quality_score(original, replacement, similarity_score) ==
  Min(similarity_score + quality_bonus(Unspell(Lower(original)), LowerStr(replacement)), 100)

\* select_alternative trying every ranked candidate: the first that passes
select_first_accepted(match, text) ==
  FirstOf({k \in 1..Len(match.bert_alternatives) :
             is_appropriate_replacement(match.original_text,
               match.bert_alternatives[k].word, match.category,
               match.bert_alternatives[k].score, text, match.start_pos)})

\* the candidate of a match that rewrite_text_with_bert applies: the index
\* in bert_alternatives, 0 when the match is left alone.  Only the best
\* alternative, bert_alternatives[0] of the code, is put to the quality gate.
select_alternative(match, text) ==
  IF /\ match.bert_alternatives # << >>
     /\ is_appropriate_replacement(match.original_text,
          match.bert_alternatives[1].word, match.category,
          match.bert_alternatives[1].score, text, match.start_pos)
  THEN 1 ELSE 0

\* the Change recorded for a match rewritten with its alternative
bert_change_record(match, alternative) ==
  [original         |-> match.original_text,
   replacement      |-> Spell(alternative.word),
   category         |-> match.category,
   position         |-> match.start_pos,
   context          |-> match.context,
   similarity_score |-> alternative.score,
   all_alternatives |-> match.bert_alternatives,
   quality_score    |-> calculate_quality_score(match.original_text, alternative.word,
                                                alternative.score)]

\* the loop of rewrite_text_with_bert over the sorted matches, from the i-th
\* on; BertRewriteStep is the body of the loop for a match and the index of
\* the alternative chosen for it
RECURSIVE BertRewriteLoop(_, _, _, _, _)
RECURSIVE BertRewriteStep(_, _, _, _, _, _, _)
BertRewriteStep(text, matches, i, rewritten_text, changes, match, chosen) ==
  IF chosen # 0
  THEN BertRewriteLoop(text, matches, i + 1,
         Splice(rewritten_text, match.start_pos, match.end_pos,
                Spell(match.bert_alternatives[chosen].word)),
         Append(changes, bert_change_record(match, match.bert_alternatives[chosen])))
  ELSE BertRewriteLoop(text, matches, i + 1, rewritten_text, changes)

BertRewriteLoop(text, matches, i, rewritten_text, changes) ==
  IF i > Len(matches) THEN [text |-> rewritten_text, changes |-> changes]
  ELSE BertRewriteStep(text, matches, i, rewritten_text, changes, matches[i],
         select_alternative(matches[i], text))

rewrite_text_with_bert(text) ==
  BertRewriteLoop(text, sort_reverse(detect_stigma_with_bert(text)), 1, text, << >>)

\* the dictionary BERTEnhancedProcessor.process_note returns
bert_note_result(text, stigma_matches, rewritten) ==
  [original_text     |-> text,
   rewritten_text    |-> rewritten.text,
   has_stigma        |-> Len(stigma_matches) > 0,
   stigma_matches    |->
     [i \in 1..Len(stigma_matches) |->
       [text         |-> stigma_matches[i].original_text,
        category     |-> stigma_matches[i].category,
        position     |-> stigma_matches[i].start_pos,
        context      |-> stigma_matches[i].context,
        confidence   |-> stigma_matches[i].confidence,
        alternatives |-> stigma_matches[i].bert_alternatives]],
   stigma_categories |-> categories_of(stigma_matches),
   changes_made      |-> rewritten.changes,
   num_changes       |-> Len(rewritten.changes),
   bert_enhanced     |-> TRUE]

\* BERTEnhancedProcessor.process_note
bert_process_note(text) ==
  bert_note_result(text, detect_stigma_with_bert(text), rewrite_text_with_bert(text))

(***************************************************************************)
(* Arbitrator: HybridProcessor                                             *)
(***************************************************************************)

\* What a call gives: a value it returns or an exception it raises
Ok(value) == [raised |-> FALSE, value |-> value]
Raise(error) == [raised |-> TRUE, error |-> error]

\* Python's None
None == [none |-> TRUE]

\* ClinicalNoteProcessor.process_note(item) for any argument: text.lower()
\* of detect_stigma raises on an argument that is not a string
call_process_note(item) ==
  IF item.kind # "str" THEN Raise("AttributeError") ELSE Ok(process_note(item.text))

\* result[key] = value for the fields, on the result of a call that returned
with_fields(result, fields) ==
  IF result.raised THEN result ELSE Ok(fields @@ result.value)

process_traditional(item) ==
  with_fields(call_process_note(item), [method |-> "traditional", bert_enhanced |-> FALSE])

\* _process_bert answering with the rule-based result when there is no
\* similarity processor
process_bert_fallback(item) ==
  IF bert_processor = "None" THEN process_traditional(item)
  ELSE IF item.kind # "str" THEN Raise("TypeError")
  ELSE Ok([method |-> "bert"] @@ bert_process_note(item.text))

\* pattern.finditer(text) of detect_stigma_with_bert raises on a non-string
process_bert(item) ==
  IF bert_processor = "None" THEN Raise("RuntimeError")
  ELSE IF item.kind # "str" THEN Raise("TypeError")
  ELSE Ok([method |-> "bert"] @@ bert_process_note(item.text))

\* the choice of the primary result with ties given to the similarity result
bert_is_primary_inclusive(bert_result, traditional_result) ==
  /\ bert_result # None
  /\ bert_result.num_changes >= traditional_result.num_changes

\* the choice of the primary result of _process_hybrid
bert_is_primary(bert_result, traditional_result) ==
  /\ bert_result # None
  /\ bert_result.num_changes > traditional_result.num_changes

\* the fields hybrid_result.update(...) copies from the primary result
primary_fields(result, primary_method) ==
  [rewritten_text    |-> result.rewritten_text,
   has_stigma        |-> result.has_stigma,
   stigma_categories |-> result.stigma_categories,
   changes_made      |-> result.changes_made,
   num_changes       |-> result.num_changes,
   primary_method    |-> primary_method]

hybrid_result(traditional_result, bert_result) ==
  (IF bert_is_primary(bert_result, traditional_result)
   THEN primary_fields(bert_result, "bert")
   ELSE primary_fields(traditional_result, "traditional"))
    @@ [original_text      |-> traditional_result.original_text,
        method             |-> "hybrid",
        bert_enhanced      |-> bert_processor # "None",
        traditional_result |-> traditional_result,
        bert_result        |-> bert_result]

\* _process_hybrid once the two pipelines have returned or raised
combine_results(traditional, bert) ==
  IF traditional.raised THEN traditional
  ELSE IF bert.raised THEN bert
  ELSE Ok(hybrid_result(traditional.value, bert.value))

\* _process_hybrid calling the similarity method whether or not there is a
\* similarity processor
process_hybrid_unguarded(item) ==
  combine_results(process_traditional(item), process_bert(item))

process_hybrid(item) ==
  combine_results(process_traditional(item),
                  IF bert_processor # "None" THEN process_bert(item) ELSE Ok(None))

\* _process_auto choosing by the length of the text alone
process_auto_unchecked(item) ==
  IF item.kind # "str" THEN Raise("AttributeError")
  ELSE IF WordCount(item.text) > AutoWordThreshold
       THEN process_bert(item)
       ELSE process_traditional(item)

\* _process_auto with the similarity pipeline from 20 words on
process_auto_inclusive(item) ==
  IF bert_processor # "None" /\ item.kind # "str" THEN Raise("AttributeError")
  ELSE IF bert_processor # "None" /\ WordCount(item.text) >= AutoWordThreshold
       THEN process_bert(item)
       ELSE process_traditional(item)

\* len(text.split()) raises on an argument that is not a string
process_auto(item) ==
  IF bert_processor # "None" /\ item.kind # "str" THEN Raise("AttributeError")
  ELSE IF bert_processor # "None" /\ WordCount(item.text) > AutoWordThreshold
       THEN process_bert(item)
       ELSE process_traditional(item)

\* process_note falling back to the automatic choice for a method it does
\* not know
hybrid_process_note_default(item, method) ==
  CASE method = "traditional" -> process_traditional(item)
    [] method = "bert"        -> process_bert(item)
    [] method = "hybrid"      -> process_hybrid(item)
    [] OTHER                  -> process_auto(item)

\* HybridProcessor.process_note(text, method)
hybrid_process_note(item, method) ==
  CASE method = "traditional" -> process_traditional(item)
    [] method = "bert"        -> process_bert(item)
    [] method = "hybrid"      -> process_hybrid(item)
    [] method = "auto"        -> process_auto(item)
    [] OTHER                  -> Raise("ValueError")

\* the loop of get_word_alternatives over the replacement tables: the entry
\* of the first table that holds the lowercase word, with score 1.0
traditional_alternatives(word_lower) ==
  IF \E c \in DOMAIN self_replacements : word_lower \in DOMAIN self_replacements[c]
  THEN <<[word  |-> self_replacements[CHOOSE c \in DOMAIN self_replacements :
                                        word_lower \in DOMAIN self_replacements[c]][word_lower],
          score |-> 100]>>
  ELSE << >>

\* HybridProcessor.get_word_alternatives(word, method, top_k)
get_word_alternatives(word, method, top_k) ==
  IF method = "bert" /\ bert_processor # "None"
  THEN Ok(find_similar_neutral_alternatives(word, top_k))
  ELSE IF method = "traditional"
       THEN Ok(traditional_alternatives(Unspell(Lower(word))))
       ELSE Raise("ValueError")

\* the fields compare_methods copies from the result of every method
comparison_fields(result) ==
  [rewritten_text    |-> result.rewritten_text,
   num_changes       |-> result.num_changes,
   has_stigma        |-> result.has_stigma,
   stigma_categories |-> result.stigma_categories]

\* the comparison compare_methods builds from the results of the methods
comparison(text, traditional, bert, hybrid) ==
  IF bert_processor = "None"
  THEN [original_text     |-> text,
        methods_available |-> <<"traditional">>,
        traditional       |-> comparison_fields(traditional)]
  ELSE [original_text     |-> text,
        methods_available |-> <<"traditional", "bert", "hybrid">>,
        traditional       |-> comparison_fields(traditional),
        bert              |-> [confidence_scores |->
                                 [i \in 1..Len(bert.stigma_matches) |->
                                    bert.stigma_matches[i].confidence]]
                                @@ comparison_fields(bert),
        hybrid            |-> [primary_method |-> hybrid.primary_method]
                                @@ comparison_fields(hybrid)]

\* HybridProcessor.compare_methods: _process_traditional raises on an
\* argument that is not a string
compare_methods(item) ==
  IF item.kind # "str" THEN Raise("AttributeError")
  ELSE Ok(comparison(item.text, process_traditional(item).value,
                     process_bert(item).value, process_hybrid(item).value))

\* len(text.split('.')): one piece more than the text has '.' characters
SentenceCount(text) == Cardinality({i \in 1..Len(text) : text[i] = "."}) + 1

\* recommended_method deciding by the number of words alone
recommended_method_words_only(words, sentences) ==
  IF words > ComplexWordThreshold
  THEN IF bert_processor # "None" THEN "bert" ELSE "traditional"
  ELSE "traditional"

\* the method analyze_text_complexity recommends
recommended_method(words, sentences) ==
  IF words > ComplexWordThreshold \/ sentences > ComplexSentenceThreshold
  THEN IF bert_processor # "None" THEN "bert" ELSE "traditional"
  ELSE "traditional"

\* the dictionary analyze_text_complexity returns; the average is in
\* hundredths, rounded down (text.split('.') is never empty)
complexity(words, sentences) ==
  [word_count          |-> words,
   sentence_count      |-> sentences,
   avg_sentence_length |-> (100 * words) \div sentences,
   recommended_method  |-> recommended_method(words, sentences)]

\* HybridProcessor.analyze_text_complexity: text.split() raises on an
\* argument that is not a string
analyze_text_complexity(item) ==
  IF item.kind # "str" THEN Raise("AttributeError")
  ELSE Ok(complexity(WordCount(item.text), SentenceCount(item.text)))

(***************************************************************************)
(* Batch entry points                                                      *)
(***************************************************************************)

\* ClinicalNoteProcessor.batch_process: [self.process_note(text) for text in
\* texts]; an exception of one call leaves the comprehension
RECURSIVE BatchFrom(_, _, _)
RECURSIVE BatchStep(_, _, _, _)
\* the result of each text put in front of the earlier ones
BatchStep_Prepend(texts, i, results, result) ==
  IF result.raised THEN result
  ELSE BatchFrom(texts, i + 1, <<result.value>> \o results)

BatchStep(texts, i, results, result) ==
  IF result.raised THEN result
  ELSE BatchFrom(texts, i + 1, Append(results, result.value))

BatchFrom(texts, i, results) ==
  IF i > Len(texts) THEN Ok(results)
  ELSE BatchStep(texts, i, results, call_process_note(texts[i]))

batch_process(texts) == BatchFrom(texts, 1, << >>)

\* the /batch_process route of web/app.py: the body and the HTTP status
batch_response(results) ==
  IF results.raised THEN [code |-> 500, error |-> results.error]
  ELSE [code |-> 200, results |-> results.value]

web_batch_process(texts) ==
  IF texts = << >>
  THEN [code |-> 400, error |-> "Please provide texts to process"]
  ELSE batch_response(batch_process(texts))

\* analyze_note of scripts/mimic_analysis.py
note_analysis(text, note_id, result) ==
  IF result.raised
  THEN [note_id         |-> note_id,
        error           |-> result.error,
        contains_stigma |-> FALSE,
        num_changes     |-> 0,
        categories      |-> {}]
  ELSE [note_id          |-> note_id,
        contains_stigma  |-> FALSE,
        num_changes      |-> 0,
        categories       |-> result.value.stigma_categories,
        original_length  |-> Len(text.text),
        rewritten_length |-> Len(result.value.rewritten_text),
        changes          |-> << >>]

analyze_note(text, note_id) ==
  note_analysis(text, note_id, hybrid_process_note(text, "hybrid"))

\* the loop of analyze_mimic_dataset over the notes
analyze_notes(texts) == [i \in 1..Len(texts) |-> analyze_note(texts[i], i)]

(***************************************************************************)
(* Calls                                                                   *)
(***************************************************************************)

Str(text) == [kind |-> "str", text |-> text]

\* The calls a handler makes: the pipelines it invokes (process_note of the
\* rule-based or of the similarity processor) and the words it passes to
\* the embedding model (get_word_embeddings runs the model once per word)
NoCalls == [pipelines |-> << >>, embeddings |-> << >>]

Then(a, b) == [pipelines |-> a.pipelines \o b.pipelines, embeddings |-> a.embeddings \o b.embeddings]

\* detect_stigma_with_bert ranks the alternatives of every match, from the
\* i-th on: find_similar_neutral_alternatives embeds the word of the match
\* and then every candidate of its category's pool
RECURSIVE embeddings_of_matches(_, _)
embeddings_of_matches(matches, i) ==
  IF i > Len(matches) THEN << >>
  ELSE <<Unspell(matches[i].original_text)>>
         \o neutral_words_of(stigma_category(Unspell(Lower(matches[i].original_text))))
         \o embeddings_of_matches(matches, i + 1)

\* ClinicalNoteProcessor.process_note is invoked
calls_traditional(item) == [pipelines |-> <<"traditional">>, embeddings |-> << >>]

\* _process_bert: BERTEnhancedProcessor.process_note detects once itself and
\* once more inside rewrite_text_with_bert
calls_bert(item) ==
  IF bert_processor = "None" THEN NoCalls
  ELSE [pipelines  |-> <<"bert">>,
        embeddings |-> IF item.kind # "str" THEN << >>
                       ELSE embeddings_of_matches(detect_stigma(item.text), 1)
                              \o embeddings_of_matches(detect_stigma(item.text), 1)]

calls_hybrid(item) ==
  IF item.kind # "str" \/ bert_processor = "None" THEN calls_traditional(item)
  ELSE Then(calls_traditional(item), calls_bert(item))

calls_auto(item) ==
  IF bert_processor # "None" /\ item.kind # "str" THEN NoCalls
  ELSE IF bert_processor # "None" /\ WordCount(item.text) > AutoWordThreshold
       THEN calls_bert(item)
       ELSE calls_traditional(item)

hybrid_calls(item, method) ==
  CASE method = "traditional" -> calls_traditional(item)
    [] method = "bert"        -> calls_bert(item)
    [] method = "hybrid"      -> calls_hybrid(item)
    [] method = "auto"        -> calls_auto(item)
    [] OTHER                  -> NoCalls

\* the list comprehension of batch_process, until a call raises
RECURSIVE batch_calls(_, _)
batch_calls(texts, i) ==
  IF i > Len(texts) THEN NoCalls
  ELSE IF texts[i].kind # "str" THEN calls_traditional(texts[i])
  ELSE Then(calls_traditional(texts[i]), batch_calls(texts, i + 1))

\* analyze_mimic_dataset: analyze_note processes each note with the hybrid method
RECURSIVE analyze_calls(_, _)
analyze_calls(texts, i) ==
  IF i > Len(texts) THEN NoCalls
  ELSE Then(calls_hybrid(texts[i]), analyze_calls(texts, i + 1))

\* compare_methods runs the rule-based method, then the similarity method
\* and the hybrid one when there is a similarity processor
calls_compare(item) ==
  IF item.kind # "str" \/ bert_processor = "None" THEN calls_traditional(item)
  ELSE Then(Then(calls_traditional(item), calls_bert(item)), calls_hybrid(item))

\* get_word_alternatives embeds the word and the pool of its category
calls_alternatives(word, method) ==
  IF method = "bert" /\ bert_processor # "None"
  THEN [pipelines  |-> << >>,
        embeddings |-> <<Unspell(word)>>
                         \o neutral_words_of(stigma_category(Unspell(Lower(word))))]
  ELSE NoCalls

\* the words whose alternatives are asked for: catalog keywords in either
\* case, and a word no catalog lists
RankWords == {Spell(w) : w \in {"adamant", "REFUSED", "aggressive", "comply", "stubborn"}}

\* the numbers of alternatives asked for; the pools have 6 to 13 candidates
TopKs == {0, 1, 3, 5, 10, 14}

Methods == {"traditional", "bert", "hybrid", "auto"}

\* an argument that is not a string (a JSON null, a missing value)
NotStr == [kind |-> "None", text |-> << >>]

BatchItems ==
  { Str(Spell(Subject \o "cooperative.")),
    Str(Spell(Subject \o "adamant.")),
    NotStr }

Batches == UNION {[1..n -> BatchItems] : n \in 0..MaxBatch}

Requests ==
  {[op |-> "process_note", item |-> Str(t)] : t \in Texts}
    \cup {[op |-> "hybrid_process_note", item |-> Str(t), method |-> m] :
            t \in Texts, m \in Methods \cup {"fast"}}
    \cup {[op |-> "hybrid_process_note", item |-> NotStr, method |-> "fast"]}
    \cup {[op |-> "analyze_text_complexity", item |-> i] :
            i \in {Str(t) : t \in Texts} \cup {NotStr}}
    \cup {[op |-> "compare_methods", item |-> i] :
            i \in {Str(t) : t \in ScenarioTexts} \cup {NotStr}}
    \cup {[op |-> o, texts |-> b] :
            o \in {"batch_process", "web_batch_process", "analyze_notes"},
            b \in Batches}
    \cup {[op |-> "get_word_alternatives", word |-> w, method |-> "bert", top_k |-> k] :
            w \in RankWords, k \in TopKs}
    \cup {[op |-> "get_word_alternatives", word |-> w, method |-> m, top_k |-> 10] :
            w \in RankWords, m \in {"traditional", "hybrid"}}

Idle == [op |-> "none"]
NoResponse == [status |-> "none"]
Returned(outcome) ==
  IF outcome.raised THEN [status |-> "error", error |-> outcome.error]
  ELSE [status |-> "ok", value |-> outcome.value]

\* HybridProcessor.__init__: the catalog is loaded; with use_bert the
\* similarity processor is constructed, and a failure of that construction
\* is caught and leaves the processor rule-based only
Init ==
  /\ keyword_dict \in Catalogs
  /\ patterns = compile_patterns(keyword_dict)
  /\ self_replacements = replacements
  /\ \/ /\ use_bert = TRUE
        /\ bert_processor = "BERTEnhancedProcessor"
        /\ bert_model \in Embeddings
        /\ bert_inits = 1
        /\ stigma_embeddings = compute_stigma_embeddings
        /\ self_neutral_alternatives = neutral_alternatives
     \/ /\ use_bert = FALSE
        /\ bert_processor = "None"
        /\ bert_model = NoEmbedding
        /\ bert_inits \in {0, 1}
        /\ stigma_embeddings = None
        /\ self_neutral_alternatives = None
  /\ request = Idle
  /\ response = NoResponse
  /\ calls = NoCalls

\* a caller makes a call
Call ==
  /\ request = Idle
  /\ request' \in Requests
  /\ UNCHANGED <<config, response, calls>>

\* the caller takes the response of its call
Return ==
  /\ response # NoResponse
  /\ request' = Idle
  /\ response' = NoResponse
  /\ calls' = NoCalls
  /\ UNCHANGED config

\* ClinicalNoteProcessor.process_note runs and returns
ProcessNote ==
  /\ request.op = "process_note"
  /\ response = NoResponse
  /\ response' = Returned(call_process_note(request.item))
  /\ calls' = calls_traditional(request.item)
  /\ UNCHANGED <<config, request>>

\* HybridProcessor.process_note with a ranking that cuts the candidate pools
\* down to the candidates it returns
HybridProcessNote_TruncatingPools ==
  /\ request.op = "hybrid_process_note"
  /\ response = NoResponse
  /\ response' = Returned(hybrid_process_note(request.item, request.method))
  /\ calls' = hybrid_calls(request.item, request.method)
  /\ self_neutral_alternatives' =
       IF bert_processor = "None" THEN self_neutral_alternatives
       ELSE [c \in DOMAIN self_neutral_alternatives |->
               SubSeq(self_neutral_alternatives[c], 1, DefaultTopK)]
  /\ UNCHANGED <<keyword_dict, use_bert, bert_processor, bert_model, bert_inits>>
  /\ UNCHANGED <<patterns, self_replacements, stigma_embeddings, request>>

\* HybridProcessor.process_note runs and returns or raises
HybridProcessNote ==
  /\ request.op = "hybrid_process_note"
  /\ response = NoResponse
  /\ response' = Returned(hybrid_process_note(request.item, request.method))
  /\ calls' = hybrid_calls(request.item, request.method)
  /\ UNCHANGED <<config, request>>

\* ClinicalNoteProcessor.batch_process runs and returns or raises
BatchProcess ==
  /\ request.op = "batch_process"
  /\ response = NoResponse
  /\ response' = Returned(batch_process(request.texts))
  /\ calls' = batch_calls(request.texts, 1)
  /\ UNCHANGED <<config, request>>

\* the /batch_process route answers
WebBatchProcess ==
  /\ request.op = "web_batch_process"
  /\ response = NoResponse
  /\ response' = Returned(Ok(web_batch_process(request.texts)))
  /\ calls' = batch_calls(request.texts, 1)
  /\ UNCHANGED <<config, request>>

\* analyze_mimic_dataset analyzes the notes one by one
AnalyzeNotes ==
  /\ request.op = "analyze_notes"
  /\ response = NoResponse
  /\ response' = Returned(Ok(analyze_notes(request.texts)))
  /\ calls' = analyze_calls(request.texts, 1)
  /\ UNCHANGED <<config, request>>

\* HybridProcessor.analyze_text_complexity runs and returns or raises
AnalyzeTextComplexity ==
  /\ request.op = "analyze_text_complexity"
  /\ response = NoResponse
  /\ response' = Returned(analyze_text_complexity(request.item))
  /\ calls' = NoCalls
  /\ UNCHANGED <<config, request>>

\* HybridProcessor.compare_methods runs and returns or raises
CompareMethods ==
  /\ request.op = "compare_methods"
  /\ response = NoResponse
  /\ response' = Returned(compare_methods(request.item))
  /\ calls' = calls_compare(request.item)
  /\ UNCHANGED <<config, request>>

\* HybridProcessor.get_word_alternatives runs and returns or raises
GetWordAlternatives ==
  /\ request.op = "get_word_alternatives"
  /\ response = NoResponse
  /\ response' = Returned(get_word_alternatives(request.word, request.method, request.top_k))
  /\ calls' = calls_alternatives(request.word, request.method)
  /\ UNCHANGED <<config, request>>

Next ==
  \/ Call
  \/ Return
  \/ ProcessNote
  \/ HybridProcessNote
  \/ BatchProcess
  \/ WebBatchProcess
  \/ AnalyzeNotes
  \/ AnalyzeTextComplexity
  \/ CompareMethods
  \/ GetWordAlternatives

Spec == Init /\ [][Next]_vars

(***************************************************************************)
(* Properties                                                              *)
(***************************************************************************)

\* The pipeline results in the response of the last call: the result of a
\* single pipeline, or the two sub-results of the hybrid method
Runs ==
  IF response.status # "ok" THEN {}
  ELSE IF request.op = "process_note" THEN {response.value}
  ELSE IF request.op = "hybrid_process_note"
       THEN IF response.value.method = "hybrid"
            THEN {response.value.traditional_result}
                   \cup (IF response.value.bert_result = None THEN {}
                         ELSE {response.value.bert_result})
            ELSE {response.value}
       ELSE {}

\* the result comes from the similarity pipeline
IsBert(r) == "bert_enhanced" \in DOMAIN r /\ r.bert_enhanced

Changes(r) == {r.changes_made[i] : i \in 1..Len(r.changes_made)}
Matches(r) == {r.stigma_matches[i] : i \in 1..Len(r.stigma_matches)}

\* the Changes made for a match: same category, same start offset
ChangesOf(r, m) == {c \in Changes(r) : c.position = m.position /\ c.category = m.category}

\* the text has a whole-word, case-insensitive occurrence of a catalog keyword
ContainsTerm(text) ==
  LET low == Lower(text)
  IN  \E c \in 1..Len(keyword_dict) :
        \E k \in 1..Len(keyword_dict[c].words) :
          \E p \in 0..(Len(low) - 1) :
            LET w == LowerSpell(keyword_dict[c].words[k])
                e == p + Len(w)
            IN  /\ StartsWithAt(low, w, p)
                /\ p = 0 \/ ~IsWordChar(low[p])
                /\ e = Len(low) \/ ~IsWordChar(low[e + 1])

\* C1: for every text without a catalog term, process_note returns the text
\* unchanged, has_stigma false, no changes and num_changes 0.
C1_NoTermNoChange ==
  \A r \in Runs :
    (~IsBert(r) /\ ~ContainsTerm(r.original_text)) =>
      /\ r.rewritten_text = r.original_text
      /\ r.has_stigma = FALSE
      /\ r.changes_made = << >>
      /\ r.num_changes = 0

\* a rule-based result for a text that has a keyword only inside a longer word
C1_Witness ==
  \E r \in Runs :
    /\ ~IsBert(r)
    /\ ~ContainsTerm(r.original_text)
    /\ \E c \in 1..Len(keyword_dict) :
         \E k \in 1..Len(keyword_dict[c].words) :
           Contains(Lower(r.original_text), LowerSpell(keyword_dict[c].words[k]))

\* no two matches of the result overlap
NoOverlap(r) ==
  \A i, j \in 1..Len(r.stigma_matches) :
    i # j =>
      LET a == r.stigma_matches[i]
          b == r.stigma_matches[j]
      IN  \/ a.position + Len(a.text) <= b.position
          \/ b.position + Len(b.text) <= a.position

\* the original text with the spans of the changes replaced, built from left
\* to right: changes[i] is the leftmost change not yet written, cursor the
\* offset of the original text written so far
RECURSIVE Patched(_, _, _, _)
Patched(text, changes, i, cursor) ==
  IF i = 0 THEN Slice(text, cursor, Len(text))
  ELSE Slice(text, cursor, changes[i].position) \o changes[i].replacement
         \o Patched(text, changes, i - 1, changes[i].position + Len(changes[i].original))

\* C2: in both pipelines the changes are spliced in descending start-offset
\* order whatever the discovery order of the matches; when no two matches
\* overlap, the rewritten text is the original text with exactly the changed
\* spans replaced.
C2_DescendingSplices ==
  \A r \in Runs :
    /\ \A i, j \in 1..Len(r.changes_made) :
         i < j => r.changes_made[i].position >= r.changes_made[j].position
    /\ NoOverlap(r) =>
         /\ \A i, j \in 1..Len(r.changes_made) :
              i < j => r.changes_made[i].position > r.changes_made[j].position
         /\ r.rewritten_text =
              Patched(r.original_text, r.changes_made, Len(r.changes_made), 0)

\* a hybrid response in which both pipelines made two changes of matches
\* discovered in ascending order, with a replacement of another length
C2_Witness ==
  /\ Cardinality(Runs) = 2
  /\ \A r \in Runs :
       /\ NoOverlap(r)
       /\ Len(r.changes_made) = 2
       /\ r.stigma_matches[1].position < r.stigma_matches[2].position
       /\ \E c \in Changes(r) : Len(c.replacement) # Len(c.original)

\* C3: for every Change of either pipeline, the original text at
\* [position, position + len(original)) is the recorded original.
C3_ChangeOffsetsInOriginal ==
  \A r \in Runs :
    \A c \in Changes(r) :
      Slice(r.original_text, c.position, c.position + Len(c.original)) = c.original

\* a result with two changes at the same offset, and one with changes at two offsets
C3_Witness ==
  \E r \in Runs :
    /\ IsBert(r)
    /\ Len(r.changes_made) >= 2
    /\ r.changes_made[1].position = r.changes_made[2].position
    /\ r.changes_made[1].position > 0

\* C4: in the similarity pipeline a candidate whose adjusted score is below
\* 0.6 is never the applied replacement of a Change.
C4_BelowThresholdNeverApplied ==
  \A r \in Runs :
    IsBert(r) =>
      \A c \in Changes(r) :
        /\ c.similarity_score >= SimilarityThreshold
        /\ \A k \in 1..Len(c.all_alternatives) :
             Spell(c.all_alternatives[k].word) = c.replacement =>
               c.all_alternatives[k].score >= SimilarityThreshold

\* a match left alone only because its best candidate scores below 0.6:
\* with a score of 1.0 the same candidate passes every other gate
C4_Witness ==
  \E r \in Runs :
    /\ IsBert(r)
    /\ \E m \in Matches(r) :
         /\ m.alternatives[1].score < SimilarityThreshold
         /\ is_appropriate_replacement(m.text, m.alternatives[1].word, m.category,
                                       100, r.original_text, m.position)
         /\ ChangesOf(r, m) = {}

\* the ranked candidates of a match that pass the quality gate
Accepted(r, m) ==
  {k \in 1..Len(m.alternatives) :
     is_appropriate_replacement(m.text, m.alternatives[k].word, m.category,
                                m.alternatives[k].score, r.original_text, m.position)}

BatchEntries ==
  IF response.status # "ok" THEN << >>
  ELSE IF request.op = "web_batch_process"
       THEN IF response.value.code = 200 THEN response.value.results ELSE << >>
       ELSE response.value

\* the call is a batch call that has been answered
BatchAnswered ==
  /\ request.op \in {"batch_process", "web_batch_process", "analyze_notes"}
  /\ response # NoResponse
  /\ request.texts # << >>

\* C6 as claimed: a batch call gives one entry per item; the entry of an
\* item whose processing raises carries the error, and every other item is
\* processed and returned.
C6_BatchIsolatesFailures ==
  BatchAnswered =>
    /\ Len(BatchEntries) = Len(request.texts)
    /\ \A i \in 1..Len(request.texts) :
         IF call_process_note(request.texts[i]).raised
         THEN "error" \in DOMAIN BatchEntries[i]
         ELSE "error" \notin DOMAIN BatchEntries[i]

\* the call is process_note(text, method) of the arbitrator, answered
Answered(method) ==
  /\ request.op = "hybrid_process_note"
  /\ request.method = method
  /\ response # NoResponse

\* C7: with no embedding capability configured, the similarity method fails
\* with the unavailability error and returns no result.
C7_SimilarityUnavailableRaises ==
  (Answered("bert") /\ bert_processor = "None") =>
    /\ response.status = "error"
    /\ response.error = "RuntimeError"
    /\ "value" \notin DOMAIN response

\* the similarity method called on a text with a catalog term, once on a
\* processor built without the capability and once after a failed construction
C7_Witness ==
  /\ Answered("bert")
  /\ bert_processor = "None"
  /\ bert_inits = 1
  /\ ContainsTerm(request.item.text)
  /\ response.status = "error"

\* the construction of the similarity processor was attempted and failed
FailedInit == bert_processor = "None" /\ bert_inits = 1

\* C8: after a failed construction of the embedding capability the
\* similarity pipeline stays disabled: no step makes the processor or the
\* flag available again, none attempts the construction again, and every
\* auto call is answered with the rule-based result without raising.
C8_FailedInitStaysDisabled ==
  [][FailedInit =>
       /\ bert_processor' = "None"
       /\ use_bert' = FALSE
       /\ bert_inits' = 1
       /\ (/\ request.op = "hybrid_process_note"
           /\ request.method = "auto"
           /\ response = NoResponse
           /\ response' # NoResponse) =>
            /\ response'.status = "ok"
            /\ response'.value.method = "traditional"
            /\ ~IsBert(response'.value)
            /\ response'.value.rewritten_text =
                 process_note(request.item.text).rewritten_text]_vars

\* after a failed construction, an auto call on a text of more than 20
\* words with a catalog term, answered with the rule-based result
C8_Witness ==
  /\ FailedInit
  /\ use_bert = FALSE
  /\ Answered("auto")
  /\ WordCount(request.item.text) > 20
  /\ response.status = "ok"
  /\ response.value.method = "traditional"
  /\ response.value.num_changes > 0

\* C9: auto runs the similarity pipeline exactly when the capability is
\* available and the text has more than 20 whitespace-separated tokens, the
\* rule-based pipeline otherwise, and the method field names the pipeline
\* that ran.
C9_AutoSelection ==
  Answered("auto") =>
    /\ response.status = "ok"
    /\ IF bert_processor # "None" /\ WordCount(request.item.text) > 20
       THEN /\ response.value.method = "bert"
            /\ IsBert(response.value)
            /\ \A m \in Matches(response.value) : "alternatives" \in DOMAIN m
       ELSE /\ response.value.method = "traditional"
            /\ ~IsBert(response.value)
            /\ \A m \in Matches(response.value) : "alternatives" \notin DOMAIN m

\* with the capability available, an auto call on a text of exactly 20
\* tokens answered by the rule-based pipeline
C9_Witness ==
  /\ Answered("auto")
  /\ bert_processor # "None"
  /\ WordCount(request.item.text) = 20
  /\ response.status = "ok"
  /\ response.value.method = "traditional"

\* the five primary fields of a hybrid result are those of the sub-result r
PrimaryFieldsOf(v, r) ==
  /\ v.rewritten_text = r.rewritten_text
  /\ v.has_stigma = r.has_stigma
  /\ v.stigma_categories = r.stigma_categories
  /\ v.changes_made = r.changes_made
  /\ v.num_changes = r.num_changes

\* C10: hybrid runs both pipelines and exposes both sub-results; the primary
\* fields are those of the similarity result only when its change count is
\* strictly larger, those of the rule-based result otherwise, ties included.
C10_HybridPrimary ==
  Answered("hybrid") =>
    /\ response.status = "ok"
    /\ LET v == response.value
           t == v.traditional_result
           b == v.bert_result
       IN  /\ t.method = "traditional" /\ ~IsBert(t)
           /\ t.original_text = request.item.text
           /\ t.num_changes = Len(t.changes_made)
           /\ bert_processor # "None" =>
                /\ b # None
                /\ b.method = "bert" /\ IsBert(b)
                /\ b.original_text = request.item.text
                /\ b.num_changes = Len(b.changes_made)
           /\ IF b # None /\ b.num_changes > t.num_changes
              THEN v.primary_method = "bert" /\ PrimaryFieldsOf(v, b)
              ELSE v.primary_method = "traditional" /\ PrimaryFieldsOf(v, t)

\* a hybrid result with the similarity result as primary, and a tie of two
\* pipelines that both made a change
C10_Witness ==
  /\ Answered("hybrid")
  /\ response.status = "ok"
  /\ response.value.bert_result # None
  /\ response.value.primary_method = "bert"
  /\ response.value.num_changes > response.value.traditional_result.num_changes

\* a tie of the two pipelines with a change each, answered with the
\* rule-based result as primary
C10_TieWitness ==
  /\ Answered("hybrid")
  /\ response.status = "ok"
  /\ response.value.bert_result # None
  /\ response.value.bert_result.num_changes = response.value.traditional_result.num_changes
  /\ response.value.num_changes > 0
  /\ response.value.primary_method = "traditional"

\* C11: process_note(text, method) with a method name outside traditional,
\* bert, hybrid, auto raises ValueError and returns nothing, whatever the
\* text is, and the call invokes no pipeline and embeds no word.
C11_UnsupportedMethodRejected ==
  (/\ request.op = "hybrid_process_note"
   /\ request.method \notin Methods
   /\ response # NoResponse) =>
    /\ response.status = "error"
    /\ response.error = "ValueError"
    /\ "value" \notin DOMAIN response
    /\ calls.pipelines = << >>
    /\ calls.embeddings = << >>

\* an unknown method on a text with a catalog term, on a processor whose
\* two pipelines are both available
C11_Witness ==
  /\ Answered("fast")
  /\ bert_processor # "None"
  /\ request.item.kind = "str"
  /\ ContainsTerm(request.item.text)
  /\ response.status = "error"
  /\ calls = NoCalls

\* the spans [p, e) of the whole-word occurrences of catalog keywords in a
\* lowercased text
WordSpans(low, w) ==
  {<<p, p + Len(w)>> :
     p \in {q \in 0..(Len(low) - 1) :
              /\ StartsWithAt(low, w, q)
              /\ q = 0 \/ ~IsWordChar(low[q])
              /\ q + Len(w) = Len(low) \/ ~IsWordChar(low[q + Len(w) + 1])}}

TermSpans(low) ==
  UNION {UNION {WordSpans(low, LowerSpell(keyword_dict[c].words[k])) :
                  k \in 1..Len(keyword_dict[c].words)} :
           c \in 1..Len(keyword_dict)}

\* the text with the characters of the spans in lower case
LowerInSpans(text, low, spans) ==
  [i \in 1..Len(text) |->
     IF \E sp \in spans : sp[1] < i /\ i <= sp[2] THEN low[i] ELSE text[i]]

\* the text with its catalog terms in lower case
LowerTerms(text) == LowerInSpans(text, Lower(text), TermSpans(Lower(text)))

\* two results decide alike: matches of the same categories at the same
\* offsets, changes with the same replacements, the same number of changes
SameDecisions(r, s) ==
  /\ r.has_stigma = s.has_stigma
  /\ r.stigma_categories = s.stigma_categories
  /\ Len(r.stigma_matches) = Len(s.stigma_matches)
  /\ \A i \in 1..Len(r.stigma_matches) :
       /\ r.stigma_matches[i].category = s.stigma_matches[i].category
       /\ r.stigma_matches[i].position = s.stigma_matches[i].position
       /\ Lower(r.stigma_matches[i].text) = s.stigma_matches[i].text
  /\ r.num_changes = s.num_changes
  /\ Len(r.changes_made) = Len(s.changes_made)
  /\ \A i \in 1..Len(r.changes_made) :
       /\ r.changes_made[i].category = s.changes_made[i].category
       /\ r.changes_made[i].position = s.changes_made[i].position
       /\ r.changes_made[i].replacement = s.changes_made[i].replacement

\* the result of the same pipeline for another text
SamePipeline(r, text) == IF IsBert(r) THEN bert_process_note(text) ELSE process_note(text)

\* the text has a catalog term with an upper-case letter
HasUpperTerm(text) == LowerTerms(text) # text

\* C12: the result for a text with catalog terms in upper case and the
\* result of the same pipeline for the same text with these terms in lower
\* case have matches of the same categories at the same offsets, the same
\* replacements at the same offsets and the same number of changes.
C12_CaseInsensitive ==
  \A r \in Runs :
    HasUpperTerm(r.original_text) =>
      SameDecisions(r, SamePipeline(r, LowerTerms(r.original_text)))

\* a rule-based result that replaced a term written in upper case
C12_Witness ==
  \E r \in Runs :
    /\ ~IsBert(r)
    /\ HasUpperTerm(r.original_text)
    /\ \E c \in Changes(r) : Lower(c.original) # c.original

\* C13: with the catalog that lists adamant under the category adamant, the
\* rule-based result for "Patient was adamant about symptoms." has the
\* rewritten text "Patient was firm about symptoms.", exactly one change,
\* has_stigma true and adamant among its categories.
C13_Scenario1 ==
  \A r \in Runs :
    (~IsBert(r) /\ r.original_text = Scenario1 /\ keyword_dict = DefaultCatalog) =>
      /\ r.rewritten_text = Spell("Patient was firm about symptoms.")
      /\ r.num_changes = 1
      /\ Len(r.changes_made) = 1
      /\ r.has_stigma = TRUE
      /\ "adamant" \in r.stigma_categories

\* ClinicalNoteProcessor.process_note answered for the note of the scenario
C13_Witness ==
  /\ request.op = "process_note"
  /\ keyword_dict = DefaultCatalog
  /\ \E r \in Runs :
       /\ r.original_text = Scenario1
       /\ r.changes_made[1].original = Spell("adamant")
       /\ r.changes_made[1].replacement = Spell("firm")

\* the result has the two changes of the scenario and neither term is left
TwoChanges(r) ==
  /\ r.num_changes = 2
  /\ Len(r.changes_made) = 2
  /\ \E c \in Changes(r) :
       /\ c.original = Spell("refused")
       /\ c.replacement = Spell("declined")
       /\ c.category = "compliance"
  /\ \E c \in Changes(r) :
       /\ c.original = Spell("combative")
       /\ c.replacement = Spell("confrontational")
       /\ c.category = "other"
  /\ ~Contains(r.rewritten_text, Spell("refused"))
  /\ ~Contains(r.rewritten_text, Spell("combative"))
  /\ r.rewritten_text = Spell("Patient declined treatment and was confrontational.")

\* C14: the rule-based result for "Patient refused treatment and was
\* combative." has exactly two changes, refused to declined in the category
\* compliance and combative to confrontational in the category other, and
\* neither term is left in the rewritten text; the methods traditional,
\* auto and hybrid of the arbitrator answer with that result.
C14_Scenario2 ==
  /\ \A r \in Runs : (~IsBert(r) /\ r.original_text = Scenario2) => TwoChanges(r)
  /\ (/\ request.op = "hybrid_process_note"
      /\ request.method \in {"traditional", "auto", "hybrid"}
      /\ request.item.text = Scenario2
      /\ response # NoResponse) =>
       /\ response.status = "ok"
       /\ TwoChanges(response.value)

\* the hybrid method answered for the note of the scenario with the two
\* changes, on a processor with both pipelines
C14_Witness ==
  /\ Answered("hybrid")
  /\ bert_processor # "None"
  /\ request.item.text = Scenario2
  /\ response.status = "ok"
  /\ response.value.num_changes = 2
  /\ response.value.changes_made[1].position > response.value.changes_made[2].position

\* the whole-word occurrences of the keywords of each category in a text:
\* the category and the span
Occurrences(low) ==
  UNION {UNION {{[category |-> keyword_dict[c].category, start |-> sp[1], end |-> sp[2]] :
                   sp \in WordSpans(low, LowerSpell(keyword_dict[c].words[k]))} :
                  k \in 1..Len(keyword_dict[c].words)} :
           c \in 1..Len(keyword_dict)}

\* how far the changes before offset p move the text after them
RECURSIVE ShiftBefore(_, _, _)
ShiftBefore(changes, i, p) ==
  IF i > Len(changes) THEN 0
  ELSE (IF changes[i].position < p
        THEN Len(changes[i].replacement) - Len(changes[i].original) ELSE 0)
         + ShiftBefore(changes, i + 1, p)

\* no change of the result touches the span
Untouched(r, start, end) ==
  \A c \in Changes(r) : c.position + Len(c.original) <= start \/ end <= c.position

\* the span of the original text stands unchanged in the rewritten text
SpanKept(r, start, end) ==
  Slice(r.rewritten_text, start + ShiftBefore(r.changes_made, 1, start),
        end + ShiftBefore(r.changes_made, 1, start))
    = Slice(r.original_text, start, end)

\* the matches the result lists for an occurrence
Listed(r, o) ==
  {m \in Matches(r) :
     /\ m.category = o.category
     /\ m.position = o.start
     /\ m.text = Slice(r.original_text, o.start, o.end)}

C15_ShiftWitness ==
  \E r \in Runs :
    \E m \in Matches(r) :
      /\ ChangesOf(r, m) = {}
      /\ \E c \in Changes(r) : c.position < m.position /\ Len(c.replacement) < Len(c.original)

\* a score in hundredths lies in [0, 1]
InUnitInterval(score) == 0 <= score /\ score <= 100

\* C16 as claimed: every confidence of a match and every similarity score
\* and quality score of a Change of the similarity pipeline lies in [0, 1].
C16_ScoresInUnitInterval ==
  \A r \in Runs :
    IsBert(r) =>
      /\ \A m \in Matches(r) : InUnitInterval(m.confidence)
      /\ \A c \in Changes(r) :
           /\ InUnitInterval(c.similarity_score)
           /\ InUnitInterval(c.quality_score)

\* analyze_text_complexity has answered for a text
ComplexityAnswered ==
  /\ request.op = "analyze_text_complexity"
  /\ response.status = "ok"

\* the method process_note(text, "auto") runs for the text of the request
AutoMethod == process_auto(request.item).value.method

\* C17 as claimed: the recommended method is the similarity method exactly
\* when the capability is available and the text has more than 20 words,
\* so it is the method auto runs for the text.
C17_RecommendationMatchesAuto ==
  ComplexityAnswered =>
    /\ response.value.recommended_method = "bert" <=>
         (bert_processor # "None" /\ WordCount(request.item.text) > 20)
    /\ response.value.recommended_method = AutoMethod

\* C17 amended: the recommended method is the similarity method exactly
\* when the capability is available and the text has more than 20 words or
\* more than 3 pieces between '.' characters; it is the method auto runs
\* for every text of at most 3 pieces.
C17_RecommendationRule ==
  ComplexityAnswered =>
    /\ response.value.word_count = WordCount(request.item.text)
    /\ response.value.sentence_count =
         Cardinality({i \in 1..Len(request.item.text) : request.item.text[i] = "."}) + 1
    /\ response.value.recommended_method \in {"bert", "traditional"}
    /\ response.value.recommended_method = "bert" <=>
         /\ bert_processor # "None"
         /\ \/ response.value.word_count > 20
            \/ response.value.sentence_count > 3
    /\ response.value.sentence_count <= 3 =>
         response.value.recommended_method = AutoMethod

\* with the capability available, a text of fewer than 20 words and four
\* pieces: the similarity method is recommended and auto runs the
\* rule-based pipeline
C17_Witness ==
  /\ ComplexityAnswered
  /\ bert_processor # "None"
  /\ response.value.word_count < 20
  /\ response.value.sentence_count = 4
  /\ response.value.recommended_method = "bert"
  /\ AutoMethod = "traditional"


\* the lowercase words handed to the embedding provider during the last call
EmbeddedWords == [i \in 1..Len(calls.embeddings) |-> LowerStr(calls.embeddings[i])]

\* C18: the embedding provider is called at most once per distinct lowercase
\* word: no word is embedded twice, and a pre-warmed catalog word is never
\* embedded again by a later call.
C18_ProviderCalledOncePerWord ==
  /\ \A i, j \in 1..Len(EmbeddedWords) : i # j => EmbeddedWords[i] # EmbeddedWords[j]
  /\ bert_processor # "None" =>
       \A i \in 1..Len(EmbeddedWords) : EmbeddedWords[i] \notin DOMAIN stigma_embeddings


\* batch_process has answered for a list whose items are all texts
BatchOfTextsAnswered ==
  /\ request.op = "batch_process"
  /\ response # NoResponse
  /\ \A i \in 1..Len(request.texts) : request.texts[i].kind = "str"

\* C19: batch_process returns one result per input text, in input order, and
\* the i-th result is the result of process_note for the i-th text alone,
\* whatever the other items of the batch are.
C19_BatchIsPerItem ==
  BatchOfTextsAnswered =>
    /\ response.status = "ok"
    /\ Len(response.value) = Len(request.texts)
    /\ \A i \in 1..Len(request.texts) :
         /\ response.value[i].original_text = request.texts[i].text
         /\ response.value[i] = process_note(request.texts[i].text)
         /\ response.value[i] = batch_process(<<request.texts[i]>>).value[1]

\* a batch of two different texts: the first has no term and is returned
\* unchanged, the second has one and is rewritten
C19_Witness ==
  /\ BatchOfTextsAnswered
  /\ Len(request.texts) = 2
  /\ request.texts[1] # request.texts[2]
  /\ response.status = "ok"
  /\ response.value[1].num_changes = 0
  /\ response.value[1].rewritten_text = request.texts[1].text
  /\ response.value[2].num_changes = 1
  /\ response.value[2].rewritten_text # request.texts[2].text


\* the tables of a processor as its construction leaves them
TablesAsConstructed ==
  /\ patterns = compile_patterns(keyword_dict)
  /\ self_replacements = replacements
  /\ bert_processor # "None" => self_neutral_alternatives = neutral_alternatives
  /\ bert_processor = "None" => self_neutral_alternatives = None

\* C20: no call changes the keyword catalog, the compiled patterns, the
\* replacement tables or the candidate pools: every step leaves them as they
\* are, so in every reachable state they are as construction left them.
C20_TablesFixed ==
  /\ []TablesAsConstructed
  /\ [][/\ keyword_dict' = keyword_dict
        /\ patterns' = patterns
        /\ self_replacements' = self_replacements
        /\ self_neutral_alternatives' = self_neutral_alternatives]_vars

\* compare_methods has run every pipeline on a text with a catalog term,
\* rewrites and ranked candidates included, and the tables are as
\* construction left them
C20_Witness ==
  /\ request.op = "compare_methods"
  /\ response.status = "ok"
  /\ bert_processor # "None"
  /\ response.value.traditional.num_changes > 0
  /\ response.value.bert.num_changes > 0
  /\ Len(calls.embeddings) > 0
  /\ TablesAsConstructed


\* the entry of the category's replacement table for a reported match: the
\* matched text itself when the category or the lowercase word is unknown
TableEntry(m) ==
  IF m.category \notin DOMAIN replacements THEN m.text
  ELSE IF Unspell(Lower(m.text)) \notin DOMAIN replacements[m.category] THEN m.text
  ELSE Spell(replacements[m.category][Unspell(Lower(m.text))])

\* the table entry differs from the matched text ignoring case
EntryDiffers(m) == Lower(TableEntry(m)) # Lower(m.text)

\* the results of the rule-based pipeline in the last response
RuleBasedRuns == {r \in Runs : ~IsBert(r)}

\* C21: in the rule-based pipeline a match has a Change, carrying its table
\* entry, exactly when the entry differs from the matched text ignoring
\* case; a word of an unknown category or absent from the table has none;
\* num_changes counts the matches whose entry differs, and when none
\* differs the text is returned untouched.
C21_ChangeIffEntryDiffers ==
  \A r \in RuleBasedRuns :
    /\ \A i \in 1..Len(r.stigma_matches) :
         /\ EntryDiffers(r.stigma_matches[i]) <=> ChangesOf(r, r.stigma_matches[i]) # {}
         /\ \A c \in ChangesOf(r, r.stigma_matches[i]) :
              /\ c.replacement = TableEntry(r.stigma_matches[i])
              /\ c.original = r.stigma_matches[i].text
    /\ r.num_changes =
         Cardinality({i \in 1..Len(r.stigma_matches) : EntryDiffers(r.stigma_matches[i])})
    /\ (\A i \in 1..Len(r.stigma_matches) : ~EntryDiffers(r.stigma_matches[i])) =>
         r.rewritten_text = r.original_text

\* a rule-based result with two matches: "agitated" maps to itself and has
\* no Change, the other term has one
C21_Witness ==
  \E r \in RuleBasedRuns :
    /\ Len(r.stigma_matches) = 2
    /\ r.num_changes = 1
    /\ \E i \in 1..2 :
         /\ r.stigma_matches[i].text = Spell("agitated")
         /\ TableEntry(r.stigma_matches[i]) = Spell("agitated")
         /\ ChangesOf(r, r.stigma_matches[i]) = {}

\* a rule-based result whose only match is of a category the tables do not
\* know: the text is returned untouched
C21_UnknownCategoryWitness ==
  \E r \in RuleBasedRuns :
    /\ Len(r.stigma_matches) = 1
    /\ r.stigma_matches[1].category \notin DOMAIN replacements
    /\ r.num_changes = 0
    /\ r.rewritten_text = r.original_text


\* get_word_alternatives has answered with the ranking of the similarity method
RankAnswered ==
  /\ request.op = "get_word_alternatives"
  /\ request.method = "bert"
  /\ response.status = "ok"

\* the catalog categories that list the lowercase word
HoldersOf(word_lower) ==
  {c \in 1..Len(keyword_dict) :
     \E k \in 1..Len(keyword_dict[c].words) : LowerStr(keyword_dict[c].words[k]) = word_lower}

\* the curated pool for a word: the pool of its category (the last category
\* of the catalog that lists it), the general pool when no category lists
\* the word or the category has no pool
PoolOf(word_lower) ==
  IF HoldersOf(word_lower) = {} THEN neutral_alternatives["general"]
  ELSE IF keyword_dict[LastOffset(HoldersOf(word_lower))].category \in DOMAIN neutral_alternatives
       THEN neutral_alternatives[keyword_dict[LastOffset(HoldersOf(word_lower))].category]
       ELSE neutral_alternatives["general"]

\* the adjusted scores of the candidates of a pool, in pool order
PoolScores(word, pool) ==
  [i \in 1..Len(pool) |->
     boosted_similarity(word, pool[i], cosine_similarity(word, pool)[i])]

\* the place of the i-th candidate in the ranking: after the candidates of
\* greater score and after the earlier candidates of equal score
PlaceOf(scores, i) ==
  1 + Cardinality({j \in 1..Len(scores) :
                     scores[j] > scores[i] \/ (scores[j] = scores[i] /\ j < i)})

\* the ranking of a pool with its scores, cut to top_k candidates
ExpectedRanking(pool, scores, top_k) ==
  [k \in 1..Min(top_k, Len(pool)) |->
     [word  |-> pool[CHOOSE i \in 1..Len(pool) : PlaceOf(scores, i) = k],
      score |-> scores[CHOOSE i \in 1..Len(pool) : PlaceOf(scores, i) = k]]]

\* C22: rank(word, top_k) returns at most top_k candidates, all from the
\* pool of the word's category (the general pool for an unknown word or
\* category), in non-increasing order of adjusted score, candidates of
\* equal score in pool order.
C22_RankingOrder ==
  RankAnswered =>
    /\ Len(response.value) <= request.top_k
    /\ \A i \in 1..Len(response.value) :
         InSeq(response.value[i].word, PoolOf(Unspell(Lower(request.word))))
    /\ \A i, j \in 1..Len(response.value) :
         i < j => response.value[i].score >= response.value[j].score
    /\ response.value =
         ExpectedRanking(PoolOf(Unspell(Lower(request.word))),
                         PoolScores(request.word, PoolOf(Unspell(Lower(request.word)))),
                         request.top_k)

\* a ranking cut to fewer candidates than the pool has, with a boosted
\* candidate first and candidates of equal score after it
C22_Witness ==
  /\ RankAnswered
  /\ request.top_k = 3
  /\ Len(response.value) = 3
  /\ response.value[1].score > response.value[2].score
  /\ response.value[2].score = response.value[3].score

\* the ranking of a word no catalog lists comes from the general pool
C22_UnknownWordWitness ==
  /\ RankAnswered
  /\ HoldersOf(Unspell(Lower(request.word))) = {}
  /\ Len(response.value) = 10
  /\ request.top_k > 10
  /\ \A i \in 1..10 : InSeq(response.value[i].word, neutral_alternatives["general"])


\* the candidate is in the list a table configures for the lowercase word
ListedFor(table, word_lower, candidate) ==
  /\ word_lower \in DOMAIN table
  /\ \E k \in 1..Len(table[word_lower]) : table[word_lower][k] = LowerStr(candidate)

\* the raw cosine similarity of the word of the request and a pool candidate
RawSimilarity(candidate) ==
  LET pool == PoolOf(Unspell(Lower(request.word)))
  IN  cosine_similarity(request.word, pool)[FirstOf({p \in 1..Len(pool) : pool[p] = candidate})]

\* the adjustment of the score of a candidate for the word of the request
Adjustment(candidate) ==
  (IF ListedFor(proven_replacements, Unspell(Lower(request.word)), candidate) THEN 20 ELSE 0)
    - (IF ListedFor(poor_replacements, Unspell(Lower(request.word)), candidate) THEN 30 ELSE 0)

\* C23: the adjusted score of every ranked candidate is its raw cosine
\* similarity plus 0.2 if it is a proven replacement of the word, minus 0.3
\* if it is a poor replacement of the word, and the raw similarity
\* otherwise; with the catalog that lists "adamant" under the category of
\* its pool, "firm" is ranked for "adamant" at least 0.2 above its raw
\* similarity, and is among the candidates when the whole pool is asked for.
C23_AdjustedScore ==
  RankAnswered =>
    /\ \A i \in 1..Len(response.value) :
         response.value[i].score =
           RawSimilarity(response.value[i].word) + Adjustment(response.value[i].word)
    /\ (keyword_dict = DefaultCatalog /\ Lower(request.word) = Spell("adamant")) =>
         /\ \A i \in 1..Len(response.value) :
              response.value[i].word = "firm" =>
                response.value[i].score >= RawSimilarity("firm") + 20
         /\ request.top_k >= 10 =>
              \E i \in 1..Len(response.value) : response.value[i].word = "firm"

\* "firm" ranked for "adamant" with its raw similarity plus 0.2
C23_Witness ==
  /\ RankAnswered
  /\ keyword_dict = DefaultCatalog
  /\ request.word = Spell("adamant")
  /\ \E i \in 1..Len(response.value) :
       /\ response.value[i].word = "firm"
       /\ response.value[i].score = RawSimilarity("firm") + 20
       /\ response.value[i].score > RawSimilarity("firm")

\* a ranking with a penalised, a boosted and an unadjusted candidate
C23_PenaltyWitness ==
  /\ RankAnswered
  /\ \E i, j, k \in 1..Len(response.value) :
       /\ response.value[i].score = RawSimilarity(response.value[i].word) - 30
       /\ response.value[j].score = RawSimilarity(response.value[j].word) + 20
       /\ response.value[k].score = RawSimilarity(response.value[k].word)


\* the results of the similarity pipeline in the last response
SimilarityRuns == {r \in Runs : IsBert(r)}

\* the term has a sanctioned set: it is critical or meaning-preserving
HasSanctionedSet(original_lower) ==
  original_lower \in DOMAIN critical_terms \cup DOMAIN meaning_preserving

\* the replacement is in the sanctioned set of the term: the one replacement
\* of a critical term, the allowed set of a meaning-preserving term
InSanctionedSet(original_lower, replacement_lower) ==
  IF original_lower \in DOMAIN critical_terms
  THEN replacement_lower = critical_terms[original_lower]
  ELSE \E k \in 1..Len(meaning_preserving[original_lower]) :
         meaning_preserving[original_lower][k] = replacement_lower

\* scores below, at and above the threshold, and above 1.0
ProbeScores == {0, 59, 60, 100, 105}

\* C24: for a critical or meaning-preserving term accept rejects every
\* candidate outside the term's sanctioned set, whatever its score, and no
\* Change of the similarity pipeline pairs such a term with a replacement
\* outside the set.
C24_SanctionedOnly ==
  \A r \in SimilarityRuns :
    /\ \A c \in Changes(r) :
         HasSanctionedSet(Unspell(Lower(c.original))) =>
           InSanctionedSet(Unspell(Lower(c.original)), Unspell(Lower(c.replacement)))
    /\ \A m \in Matches(r) :
         \A k \in 1..Len(m.alternatives) :
           (/\ HasSanctionedSet(Unspell(Lower(m.text)))
            /\ ~InSanctionedSet(Unspell(Lower(m.text)), LowerStr(m.alternatives[k].word))) =>
             \A s \in ProbeScores :
               ~is_appropriate_replacement(m.text, m.alternatives[k].word, m.category,
                                           s, r.original_text, m.position)

\* a critical term whose best candidate scores above the threshold and is
\* not its sanctioned replacement: the match is left alone
C24_Witness ==
  \E r \in SimilarityRuns :
    \E m \in Matches(r) :
      /\ Lower(m.text) = Spell("refused")
      /\ m.alternatives[1].score >= 60
      /\ m.alternatives[1].word # "declined"
      /\ ChangesOf(r, m) = {}

\* a critical term and a meaning-preserving term rewritten with a
\* sanctioned replacement
C24_AppliedWitness ==
  \E r \in SimilarityRuns :
    \E c, d \in Changes(r) :
      /\ Lower(c.original) = Spell("refused") /\ c.replacement = Spell("declined")
      /\ Lower(d.original) = Spell("adamant") /\ d.replacement = Spell("firm")


\* the sentence enclosing offset p of the text: from after the nearest '.'
\* before p up to the nearest '.' at or after p, or the bounds of the text
EnclosingSentence(text, p) ==
  LET before == {i \in 0..(p - 1) : text[i + 1] = "."}
      after  == {i \in p..(Len(text) - 1) : text[i + 1] = "."}
      from   == IF before = {} THEN 0 ELSE 1 + LastOffset(before)
      to     == IF after = {} THEN Len(text) ELSE FirstOffset(after)
  IN  Strip(Slice(text, from, to))

\* the override rules whose trigger term is in the original and whose
\* triggering pattern is in the sentence
RulesTriggered(original, sentence) ==
  {k \in 1..Len(problematic_contexts) :
     /\ SearchWholeWord(original, problematic_contexts[k].pattern)
     /\ SearchWords(sentence, problematic_contexts[k].context)}

\* the replacements the override is probed with for a match: its ranked
\* candidates and the required replacements of the rules
OverrideCandidates(m) ==
  {m.alternatives[k].word : k \in 1..Len(m.alternatives)}
    \cup {problematic_contexts[k].replacement : k \in 1..Len(problematic_contexts)}

\* C25: when the original has a rule's trigger term and the sentence
\* enclosing the match has the rule's triggering pattern, the override
\* passes, and accept accepts, only the rule's required replacement; when
\* no rule triggers the override passes every replacement.
C25_SentenceOverride ==
  \A r \in SimilarityRuns :
    \A m \in Matches(r) :
      \A w \in OverrideCandidates(m) :
        LET triggered == RulesTriggered(m.text, EnclosingSentence(r.original_text, m.position))
        IN  /\ triggered = {} =>
                 is_contextually_appropriate(m.text, w, r.original_text, m.position)
            /\ \A k \in triggered :
                 /\ is_contextually_appropriate(m.text, w, r.original_text, m.position)
                      <=> LowerStr(w) = problematic_contexts[k].replacement
                 /\ is_appropriate_replacement(m.text, w, m.category, 100,
                                               r.original_text, m.position)
                      => LowerStr(w) = problematic_contexts[k].replacement

\* a note of two sentences with the same term in each: the rule triggers
\* for the match in the sentence "refused to comply" and not for the other
C25_Witness ==
  \E r \in SimilarityRuns :
    \E m, n \in Matches(r) :
      /\ Lower(m.text) = Spell("refused")
      /\ Lower(n.text) = Spell("refused")
      /\ m.position < n.position
      /\ RulesTriggered(m.text, EnclosingSentence(r.original_text, m.position)) = {}
      /\ RulesTriggered(n.text, EnclosingSentence(r.original_text, n.position)) = {2}
      /\ is_contextually_appropriate(m.text, "did not accept", r.original_text, m.position)
      /\ ~is_contextually_appropriate(n.text, "did not accept", r.original_text, n.position)
      /\ is_contextually_appropriate(n.text, "declined", r.original_text, n.position)


\* the already-neutral allow-list
AlreadyNeutral == {"agitated", "uncooperative", "patient", "individual", "person"}

\* C26: a matched term of the already-neutral allow-list, in any letter
\* case, is never rewritten by the similarity pipeline: no Change has it as
\* its original, and accept rejects every candidate for it whatever the
\* score.
C26_NeutralNeverRewritten ==
  \A r \in SimilarityRuns :
    /\ \A c \in Changes(r) : Unspell(Lower(c.original)) \notin AlreadyNeutral
    /\ \A m \in Matches(r) :
         Unspell(Lower(m.text)) \in AlreadyNeutral =>
           /\ ChangesOf(r, m) = {}
           /\ \A k \in 1..Len(m.alternatives) : \A s \in ProbeScores :
                ~is_appropriate_replacement(m.text, m.alternatives[k].word, m.category,
                                            s, r.original_text, m.position)

\* "AGITATED" matched with a best candidate above the threshold, and the
\* note returned as it was
C26_Witness ==
  \E r \in SimilarityRuns :
    /\ Len(r.stigma_matches) = 1
    /\ r.stigma_matches[1].text = Spell("AGITATED")
    /\ r.stigma_matches[1].alternatives[1].score >= 60
    /\ r.num_changes = 0
    /\ r.rewritten_text = r.original_text


\* the place of a category in the catalog
CatalogIndex(category) ==
  FirstOf({c \in 1..Len(keyword_dict) : keyword_dict[c].category = category})

\* C27: the matches of a result are grouped by category in catalog order
\* and, within a category, by increasing offset; every whole-word
\* occurrence of a keyword is reported once for each category that lists
\* it; a match carries a category whose keywords include its text, and its
\* context is the text from max(0, start - 50) to min(len, end + 50).
C27_DetectionOrder ==
  \A r \in Runs :
    /\ \A i, j \in 1..Len(r.stigma_matches) :
         i < j =>
           \/ CatalogIndex(r.stigma_matches[i].category) < CatalogIndex(r.stigma_matches[j].category)
           \/ /\ r.stigma_matches[i].category = r.stigma_matches[j].category
              /\ r.stigma_matches[i].position < r.stigma_matches[j].position
    /\ \A o \in Occurrences(Lower(r.original_text)) :
         Cardinality({i \in 1..Len(r.stigma_matches) :
                        /\ r.stigma_matches[i].category = o.category
                        /\ r.stigma_matches[i].position = o.start
                        /\ Len(r.stigma_matches[i].text) = o.end - o.start}) = 1
    /\ \A i \in 1..Len(r.stigma_matches) :
         LET m == r.stigma_matches[i]
         IN  /\ [category |-> m.category, start |-> m.position,
                 end |-> m.position + Len(m.text)] \in Occurrences(Lower(r.original_text))
             /\ m.text = Slice(r.original_text, m.position, m.position + Len(m.text))
             /\ m.context = Slice(r.original_text, Max(0, m.position - 50),
                                  Min(Len(r.original_text), m.position + Len(m.text) + 50))

\* one span matched by the keywords of two categories: two matches at the
\* same offset, in catalog order
C27_Witness ==
  \E r \in Runs :
    /\ Len(r.stigma_matches) >= 2
    /\ r.stigma_matches[1].position = r.stigma_matches[2].position
    /\ r.stigma_matches[1].category # r.stigma_matches[2].category
    /\ CatalogIndex(r.stigma_matches[1].category) = 1
    /\ CatalogIndex(r.stigma_matches[2].category) = 2

\* a context that starts 50 characters before its match, and one that ends
\* 50 characters after its match
C27_ClippedWitness ==
  \/ \E r \in Runs : \E m \in Matches(r) :
       /\ m.position > 50
       /\ Len(m.context) = 50 + Len(r.original_text) - m.position
  \/ \E r \in Runs : \E m \in Matches(r) :
       /\ m.position + Len(m.text) + 50 < Len(r.original_text)
       /\ Len(m.context) = m.position + Len(m.text) + 50


\* the spans of two changes of a result share no character position
DisjointSpans(c, d) ==
  \/ c.position + Len(c.original) <= d.position
  \/ d.position + Len(d.original) <= c.position

\* C28: each character position of the original text is covered by the span
\* of at most one applied Change: the spans of any two Changes of a result
\* are disjoint, also when two categories list the same keyword.
C28_OneChangePerPosition ==
  \A r \in Runs :
    \A i, j \in 1..Len(r.changes_made) :
      i # j => DisjointSpans(r.changes_made[i], r.changes_made[j])


\* every keyword of the catalog is a key of its category's replacement table
KeywordsAreTableKeys ==
  \A c \in 1..Len(keyword_dict) :
    /\ keyword_dict[c].category \in DOMAIN replacements
    /\ \A k \in 1..Len(keyword_dict[c].words) :
         LowerStr(keyword_dict[c].words[k]) \in DOMAIN replacements[keyword_dict[c].category]

\* C29: with a catalog whose keywords are keys of the replacement tables,
\* processing the rewritten text of a rule-based result again makes no
\* further change.
C29_RuleBasedIdempotent ==
  KeywordsAreTableKeys =>
    \A r \in RuleBasedRuns :
      /\ process_note(r.rewritten_text).num_changes = 0
      /\ process_note(r.rewritten_text).rewritten_text = r.rewritten_text


\* compare_methods has answered for a text
ComparisonAnswered ==
  /\ request.op = "compare_methods"
  /\ request.item.kind = "str"
  /\ response # NoResponse

\* C30: without the embedding capability the hybrid method does not raise:
\* it runs the rule-based pipeline only, its similarity sub-result is
\* absent, the result is not similarity-enhanced and its primary method is
\* the rule-based one; compare_methods lists the rule-based method alone
\* then, lists the similarity and the hybrid method exactly when the
\* capability is available, and names no winner.
C30_HybridWithoutCapability ==
  /\ (Answered("hybrid") /\ bert_processor = "None") =>
       /\ response.status = "ok"
       /\ calls.pipelines = <<"traditional">>
       /\ calls.embeddings = << >>
       /\ response.value.bert_result = None
       /\ response.value.bert_enhanced = FALSE
       /\ response.value.primary_method = "traditional"
       /\ response.value.rewritten_text = response.value.traditional_result.rewritten_text
       /\ response.value.changes_made = response.value.traditional_result.changes_made
  /\ ComparisonAnswered =>
       /\ response.status = "ok"
       /\ response.value.methods_available[1] = "traditional"
       /\ bert_processor = "None" =>
            /\ response.value.methods_available = <<"traditional">>
            /\ DOMAIN response.value = {"original_text", "methods_available", "traditional"}
            /\ calls.pipelines = <<"traditional">>
       /\ bert_processor # "None" =>
            /\ response.value.methods_available = <<"traditional", "bert", "hybrid">>
            /\ DOMAIN response.value =
                 {"original_text", "methods_available", "traditional", "bert", "hybrid"}
       /\ DOMAIN response.value \cap {"winner", "best", "primary_method", "recommended_method"} = {}

\* the hybrid method on a processor without the capability, for a text with
\* a catalog term: answered with the rule-based rewrite
C30_Witness ==
  /\ Answered("hybrid")
  /\ bert_processor = "None"
  /\ response.status = "ok"
  /\ response.value.bert_result = None
  /\ response.value.num_changes > 0
  /\ response.value.primary_method = "traditional"

\* compare_methods on a processor without the capability, for a text with
\* a catalog term
C30_ComparisonWitness ==
  /\ ComparisonAnswered
  /\ bert_processor = "None"
  /\ response.value.methods_available = <<"traditional">>
  /\ response.value.traditional.num_changes > 0

====
